---- MODULE Spec2Model ----
(***************************************************************************)
(* Model of the doc-gen core of amplifier-docs:                            *)
(*   - DocumentValidator.validate_and_fix  (validate/validator.py)         *)
(*   - ChangeDetector.check_changes        (change_detection.py)           *)
(*   - DocumentGenerator.generate_from_outline (generate/doc_generator.py) *)
(*   - the fetching of source references   (doc_generator.py, validator.py)*)
(*   - DocumentOutline.save and load       (generate/outline_models.py)    *)
(*   - BatchOrchestrator.regenerate_changed (orchestration.py)             *)
(* and of its scripts and command line:                                    *)
(*   - the checkpointed sequential run and the worker pool                 *)
(*                                   (scripts/regenerate_module_docs.py)   *)
(*   - repository checkouts          (repos.py, regenerate_module_docs.py) *)
(*   - the exit codes of the commands (cli.py)                             *)
(*   - --only-if-changed             (outlines/regenerate_from_outlines.py)*)
(* Each component has its own specification over the shared variables;     *)
(* the variables of the other components stay at their initial values.     *)
(***************************************************************************)
EXTENDS Integers, Sequences, FiniteSets, TLC

VARIABLES
    \* ---- DocumentValidator.validate_and_fix ----
    v_pc,           \* "check" | "fix" | "returned" | "raised"
    iteration,      \* loop variable of validate_and_fix
    history,        \* list of {"iteration", "check", "fixes_applied"}
    staged,         \* content of staged_file (a sequence of lines)
    md_content,     \* the text the last phase read from staged_file
    parse_failed,   \* the last check took the JSONDecodeError branch
    llm_calls,      \* the location argument of every llm_client.generate call so far
    result,         \* the dict validate_and_fix returned
    v_error,        \* the exception that left validate_and_fix, if any
    \* ---- ChangeDetector.check_changes and its callers ----
    live,           \* the repositories as they are now: repo -> readable, files
    repo_paths,     \* the repositories named by the source specification
    snapshot,       \* outline["_commit_hashes"]: qualified key -> commit hash
    d_fresh,        \* snapshot was recorded by _collect_source_files, repos unchanged since
    report,         \* the ChangeReport check_changes returned
    d_stale,        \* report.needs_regeneration() as read by the caller
    d_pc,           \* "reported": report is the answer for the current snapshot and repos
    \* ---- DocumentGenerator.generate_from_outline ----
    outline,            \* outline.sections as loaded: a list of Section trees
    g_pc,               \* "idle" | "running" | "done" | "raised"
    g_stack,            \* the active _generate_section calls, innermost last
    document_parts,     \* generate_from_outline: document_parts
    generated_document, \* self.generated_document
    section_context,    \* self.section_context
    sections_completed, \* self.sections_completed
    total_sections,     \* self.total_sections
    service_calls,      \* the llm_client.generate calls made, in order
    output_file,        \* what output_file.write_text wrote, or NotWritten
    remote,             \* what fetching each remote path ends in
    outline_updated,    \* self.outline_updated
    g_error,            \* the exception that left generate_from_outline, or "none"
    g_effects,          \* the file-system effects of the run, in order
    g_call,             \* "first" | "second": the call of this instance that is running or ran last
    \* ---- reading source references ----
    sr_sources,         \* the references read
    sr_remote,          \* what fetching each remote path ends in
    sr_pc,              \* "idle" | "generator" | "done"
    sr_log,             \* the urlopen calls made: by whom, for which reference, where
    sr_error,           \* the exception that escaped a reader, or "none"
    \* ---- outline files ----
    o_mem,              \* the DocumentOutline in memory, or NoOutline
    o_file,             \* the text of the outline file, or NoFile
    o_orig,             \* the outline the history started from
    o_saved,            \* the text the first save wrote, or NoFile
    \* ---- BatchOrchestrator.regenerate_changed ----
    b_docs,             \* MetadataManager.find_all_docs(), with what each document meets
    b_pc,               \* "find" | "found" | "regenerate" | "returned" | "raised"
    b_next,             \* index of the next document of the running loop
    changed_docs,       \* _find_changed_docs: changed_docs
    b_results,          \* regenerate_changed: results
    b_counts,           \* successful, failed, total_tokens as accumulated
    b_report,           \* the BatchReport returned, or NoBatchReport
    b_error,            \* the exception that left regenerate_changed, or "none"
    \* ---- regenerate_module_docs.py, sequential mode with a checkpoint ----
    cp_count,           \* the length of module_docs, the same in every run
    cp_run,             \* 1: the first run, 2: the run resumed with --continue
    cp_pc,              \* "running" | "stopped" | "finished"
    cp_queue,           \* module_docs of the current run, what is left of it
    cp_checkpoint,      \* last_completed in the checkpoint file, NoCheckpoint without one
    cp_failures,        \* failure_count of the current run
    cp_completed,       \* the documents completed successfully before the resumed run
    cp_processed,       \* the documents the resumed run processed, in order
    \* ---- regenerate_module_docs.py, worker-pool mode ----
    wp_docs,            \* worker -> the document it was submitted with
    wp_pc,              \* worker -> its position in process_module_doc
    wp_cwd,             \* the working directory of the process
    wp_original_dir,    \* worker -> original_dir of its generate_docs call
    wp_clones,          \* the repositories that have a checkout under temp_dir
    wp_files,           \* <<repository, name>> -> the generated file there, <<>> if none
    wp_found,           \* worker -> generated_file.exists() as it saw it
    wp_result,          \* worker -> <<>> while running, then <<its outcome>>
    \* ---- repository checkouts: RepoManager and the module-docs script ----
    cl_docs,            \* check-changes: docs_to_check, each with its source repositories
    cl_next,            \* check-changes: index of the next document
    cl_temp_dir,        \* RepoManager.temp_dir: the repositories checked out in it
    cl_log,             \* RepoManager.clone_repo calls: repository and outcome
    cl_statuses,        \* check-changes: the status of each document checked
    cl_script_dir,      \* the script's temp_dir: the repositories checked out in it
    cl_script_log,      \* the script's clone_repo calls: repository and outcome
    \* ---- the doc-gen command line ----
    cli_runs,           \* the commands run: command, what happened in it, exit code
    \* ---- regenerate_from_outlines.py with --only-if-changed ----
    oc_outline,         \* the outline file of the document: the commit recorded per source
    oc_current,         \* the repository: the current commit per source file
    oc_runs             \* the process_file runs so far, each with what it saw and did

vvars == <<v_pc, iteration, history, staged, md_content, parse_failed,
           llm_calls, result, v_error>>

dvars == <<live, repo_paths, snapshot, d_fresh, report, d_stale, d_pc>>

gvars == <<outline, g_pc, g_stack, document_parts, generated_document,
           section_context, sections_completed, total_sections, service_calls,
           output_file, remote, outline_updated, g_error, g_effects, g_call>>

srvars == <<sr_sources, sr_remote, sr_pc, sr_log, sr_error>>

ovars == <<o_mem, o_file, o_orig, o_saved>>

bvars == <<b_docs, b_pc, b_next, changed_docs, b_results, b_counts, b_report, b_error>>

cpvars == <<cp_count, cp_run, cp_pc, cp_queue, cp_checkpoint, cp_failures,
            cp_completed, cp_processed>>

wpvars == <<wp_docs, wp_pc, wp_cwd, wp_original_dir, wp_clones, wp_files,
            wp_found, wp_result>>

clvars == <<cl_docs, cl_next, cl_temp_dir, cl_log, cl_statuses, cl_script_dir,
            cl_script_log>>

clivars == <<cli_runs>>

ocvars == <<oc_outline, oc_current, oc_runs>>

vars == <<vvars, dvars, gvars, srvars, ovars, bvars, cpvars, wpvars, clvars
    , clivars, ocvars>>

\* What the actions of one component leave alone.
not_validator == <<dvars, gvars, srvars, ovars, bvars, cpvars, wpvars
    , clvars, clivars, ocvars>>
not_detector == <<vvars, gvars, srvars, ovars, bvars, cpvars, wpvars, clvars
    , clivars, ocvars>>
not_generator == <<vvars, dvars, srvars, ovars, bvars, cpvars, wpvars
    , clvars, clivars, ocvars>>
not_source_read == <<vvars, dvars, gvars, ovars, bvars, cpvars, wpvars
    , clvars, clivars, ocvars>>
not_outline_file == <<vvars, dvars, gvars, srvars, bvars, cpvars, wpvars
    , clvars, clivars, ocvars>>
not_batch == <<vvars, dvars, gvars, srvars, ovars, cpvars, wpvars, clvars
    , clivars, ocvars>>
not_checkpoint == <<vvars, dvars, gvars, srvars, ovars, bvars, wpvars
    , clvars, clivars, ocvars>>
not_worker_pool == <<vvars, dvars, gvars, srvars, ovars, bvars, cpvars
    , clvars, clivars, ocvars>>
not_clone == <<vvars, dvars, gvars, srvars, ovars, bvars, cpvars, wpvars
    , clivars, ocvars>>
not_cli == <<vvars, dvars, gvars, srvars, ovars, bvars, cpvars, wpvars
    , clvars, ocvars>>
not_only_if_changed == <<vvars, dvars, gvars, srvars, ovars, bvars, cpvars
    , wpvars, clvars, clivars>>

-----------------------------------------------------------------------------
(* Generic helpers                                                          *)

RECURSIVE SeqsUpTo(_, _)
SeqsUpTo(S, n) ==
    IF n = 0 THEN {<<>>}
    ELSE LET shorter == SeqsUpTo(S, n - 1)
         IN  shorter \cup {Append(s, x) : s \in {t \in shorter : Len(t) = n - 1}, x \in S}

RECURSIVE CountIn(_, _)
CountIn(s, x) ==
    IF s = <<>> THEN 0
    ELSE (IF Head(s) = x THEN 1 ELSE 0) + CountIn(Tail(s), x)

-----------------------------------------------------------------------------
(* DocumentValidator                                                        *)

MAX_ITERATIONS == 5

MaxIssues == 1

Absent == "<absent>"

Priorities == {"HIGH", "MEDIUM", "LOW"}

\* The issue lists a judgment can carry: every list of up to MaxIssues
\* HIGH or LOW issues, and some lists with MEDIUM ones.
IssueLists ==
    SeqsUpTo({"HIGH", "LOW"}, MaxIssues)
    \cup { <<"MEDIUM">>, <<"MEDIUM", "LOW">>, <<"LOW", "HIGH">>, <<"LOW", "LOW">> }

\* What llm_client.generate can return to check_completeness. The payload is
\* not JSON at all ("garbage", "empty"), valid JSON that is not the judgment
\* object ("nonobject", e.g. a bare list), or the judgment object; a key the
\* object leaves out is Absent.
CheckPayloads ==
    {[kind |-> k, needs_fixing |-> Absent, issues |-> <<>>] :
        k \in {"garbage", "empty", "nonobject"}}
    \cup
    {[kind |-> "object", needs_fixing |-> nf, issues |-> is] :
        nf \in {"true", "false"}, is \in IssueLists}
    \cup
    {[kind |-> "object", needs_fixing |-> Absent, issues |-> <<"HIGH">>],
     [kind |-> "object", needs_fixing |-> "true", issues |-> <<Absent>>],
     [kind |-> "object", needs_fixing |-> "true", issues |-> <<Absent, "MEDIUM">>]}

\* The text is optionally wrapped in a code fence.
\* fence "full": a fence line, the payload, a closing fence line;
\* fence "short": fenced text of at most 2 lines (the fence is then kept).
CheckResponses ==
    {[fence |-> "none", payload |-> p] : p \in CheckPayloads}
    \cup
    {[fence |-> f, payload |-> p] :
        f \in {"full", "short"}, p \in {q \in CheckPayloads : Len(q.issues) <= 1}}

\* What llm_client.generate can return to fix_issues, as lines of text.
FixResponses ==
    { <<"a">>, <<"", "a", "">>, <<"FENCE_MD", "a", "FENCE">>, <<"FENCE", "a">> }

InitialDocs == { <<"a">> }

\* ValidationResult.high_priority_count / medium / low (lines 42-52)
PriorityCount(issues, p) == CountIn(issues, p)

ValidationResult(it, nf, issues) ==
    [iteration |-> it, needs_fixing |-> nf, issues |-> issues]

\* ValidationResult.to_dict (lines 54-63)
ResultToDict(vr) ==
    [iteration |-> vr.iteration,
     needs_fixing |-> vr.needs_fixing,
     total_issues |-> Len(vr.issues),
     high_priority_count |-> PriorityCount(vr.issues, "HIGH"),
     medium_priority_count |-> PriorityCount(vr.issues, "MEDIUM"),
     low_priority_count |-> PriorityCount(vr.issues, "LOW"),
     issues |-> vr.issues]

\* check_completeness lines 236-269: outcome of parsing a response.
\*   "JSONDecodeError" is caught (empty result), "AttributeError" is not.
ParseOutcome(resp) ==
    IF resp.fence = "short" THEN "JSONDecodeError"
    ELSE IF resp.payload.kind \in {"garbage", "empty"} THEN "JSONDecodeError"
    ELSE IF resp.payload.kind = "nonobject" THEN "AttributeError"
    ELSE "parsed"

\* issue_data.get("priority", "LOW")
ParsePriority(raw) == IF raw = Absent THEN "LOW" ELSE raw

\* result_data.get("needs_fixing", False)
ParseNeedsFixing(raw) == IF raw = Absent THEN FALSE ELSE (raw = "true")

ParseCheck_FailClosed(resp, it) ==
    IF ParseOutcome(resp) = "parsed"
    THEN ValidationResult(it, ParseNeedsFixing(resp.payload.needs_fixing),
                          [i \in 1..Len(resp.payload.issues) |->
                               ParsePriority(resp.payload.issues[i])])
    ELSE ValidationResult(it, TRUE, <<"HIGH">>)

ParseCheck(resp, it) ==
    IF ParseOutcome(resp) = "parsed"
    THEN ValidationResult(it, ParseNeedsFixing(resp.payload.needs_fixing),
                          [i \in 1..Len(resp.payload.issues) |->
                               ParsePriority(resp.payload.issues[i])])
    ELSE ValidationResult(it, FALSE, <<>>)

Passes_NeedsFixingOnly(vr) == ~vr.needs_fixing

\* validate_and_fix lines 408-409: the stop condition of the loop.
Passes(vr) ==
    \/ ~vr.needs_fixing
    \/ (PriorityCount(vr.issues, "HIGH") = 0 /\ PriorityCount(vr.issues, "MEDIUM") = 0)

\* fix_issues lines 284-287
IssuesToFix(vr) == SelectSeq(vr.issues, LAMBDA p : p \in {"HIGH", "MEDIUM"})

\* str.strip() on a text held as lines: blank lines at both ends go.
RECURSIVE StripLeft(_)
StripLeft(t) == IF t # <<>> /\ Head(t) = "" THEN StripLeft(Tail(t)) ELSE t

RECURSIVE StripRight(_)
StripRight(t) ==
    IF t # <<>> /\ t[Len(t)] = "" THEN StripRight(SubSeq(t, 1, Len(t) - 1)) ELSE t

Strip(t) == StripRight(StripLeft(t))

\* "FENCE" stands for a line of three backquotes, "FENCE_MD" for the same
\* followed by the word markdown.
IsFence(line) == line \in {"FENCE", "FENCE_MD"}

\* fix_issues lines 356-362
CleanFixResponse(resp) ==
    LET fixed_content == Strip(resp)
    IN  IF fixed_content # <<>> /\ IsFence(Head(fixed_content))
        THEN IF Len(fixed_content) > 2
             THEN SubSeq(fixed_content, 2, Len(fixed_content) - 1)
             ELSE fixed_content
        ELSE fixed_content

NoResult == [status |-> "NONE", iterations |-> 0, history |-> <<>>]

HistoryEntry_ZeroBased(it, vr, applied) ==
    [iteration |-> it - 1, check |-> ResultToDict(vr), fixes_applied |-> applied]

HistoryEntry(it, vr, applied) ==
    [iteration |-> it, check |-> ResultToDict(vr), fixes_applied |-> applied]

ValidatorInit ==
    /\ v_pc = "check"
    /\ iteration = 1
    /\ history = <<>>
    /\ staged \in InitialDocs
    /\ md_content = <<>>
    /\ parse_failed = FALSE
    /\ llm_calls = <<>>
    /\ result = NoResult
    /\ v_error = "none"

ValidatorIdle ==
    /\ v_pc = "returned"
    /\ iteration = 1
    /\ history = <<>>
    /\ staged = <<>>
    /\ md_content = <<>>
    /\ parse_failed = FALSE
    /\ llm_calls = <<>>
    /\ result = NoResult
    /\ v_error = "none"

\* One check phase (lines 391-416): check_completeness, the history entry,
\* and the early return when the stop condition holds.
Check(resp) ==
    /\ v_pc = "check"
    /\ UNCHANGED not_validator
    /\ md_content' = staged
    /\ llm_calls' = Append(llm_calls, [phase |-> "check", iteration |-> iteration])
    /\ UNCHANGED <<iteration, staged>>
    /\ IF ParseOutcome(resp) = "AttributeError"
       THEN /\ v_pc' = "raised"
            /\ v_error' = "AttributeError"
            /\ UNCHANGED <<history, parse_failed, result>>
       ELSE LET vr == ParseCheck(resp, iteration)
                h  == Append(history, HistoryEntry(iteration, vr, FALSE))
            IN  /\ parse_failed' = (ParseOutcome(resp) = "JSONDecodeError")
                /\ history' = h
                /\ v_error' = v_error
                /\ IF Passes(vr)
                   THEN /\ v_pc' = "returned"
                        /\ result' = [status |-> "PASSED", iterations |-> iteration,
                                      history |-> h]
                   ELSE /\ v_pc' = "fix"
                        /\ result' = result

\* One fix phase (lines 419-429 and the end of the loop, 431-441).
Fix(resp) ==
    /\ v_pc = "fix"
    /\ UNCHANGED not_validator
    /\ LET vr == history[Len(history)].check
           n  == Len(history)
       IN  IF IssuesToFix(vr) = <<>>
           THEN \* fix_issues returns False without calling the service
                /\ v_pc' = "returned"
                /\ result' = [status |-> "PASSED", iterations |-> iteration,
                              history |-> history]
                /\ UNCHANGED <<iteration, history, staged, md_content, parse_failed,
                               llm_calls, v_error>>
           ELSE LET h == [history EXCEPT ![n].fixes_applied = TRUE]
                IN  /\ md_content' = staged
                    /\ llm_calls' = Append(llm_calls,
                                           [phase |-> "fix", iteration |-> iteration])
                    /\ staged' = CleanFixResponse(resp)
                    /\ history' = h
                    /\ UNCHANGED <<parse_failed, v_error>>
                    /\ IF iteration < MAX_ITERATIONS
                       THEN /\ iteration' = iteration + 1
                            /\ v_pc' = "check"
                            /\ result' = result
                       ELSE /\ iteration' = iteration
                            /\ v_pc' = "returned"
                            /\ result' = [status |-> "NEEDS_REVIEW",
                                          iterations |-> MAX_ITERATIONS,
                                          history |-> h]

\* llm_client.generate raises (timeout, rate limit, API error) in either phase.
ServiceFails ==
    /\ v_pc \in {"check", "fix"}
    /\ UNCHANGED not_validator
    /\ llm_calls' = Append(llm_calls, [phase |-> v_pc, iteration |-> iteration])
    /\ md_content' = staged
    /\ v_pc' = "raised"
    /\ v_error' = "LLMError"
    /\ UNCHANGED <<iteration, history, staged, parse_failed, result>>

ValidatorNext ==
    \/ \E resp \in CheckResponses : Check(resp)
    \/ \E resp \in FixResponses : Fix(resp)
    \/ ServiceFails

-----------------------------------------------------------------------------
(* ChangeDetector                                                           *)

MaxHash == 2

\* Commit hashes (40 hex digits in the code) and the 7-character prefix the
\* report shows: distinct hashes can share a prefix.
Hashes == 1..MaxHash

NoHash == 0

Short7(h) == (h + 1) \div 2

Repos == {"A", "B"}

PathsOf(repo) == IF repo = "A" THEN {"x", "y"} ELSE {"x"}

\* A qualified key f"{repo_name}/{file_path}", kept as the pair it is built from.
Keys == {<<r, p>> : r \in Repos, p \in {"x", "y"}} \cap {k \in Repos \X {"x", "y"} : k[2] \in PathsOf(k[1])}

\* The order in which the keys are visited (the code iterates a set and a dict).
KeyOrder == << <<"A", "x">>, <<"A", "y">>, <<"B", "x">> >>

\* A file of a repository: not in the tree of HEAD, or tracked; the latest
\* commit of a tracked file is found (hash) or the lookup fails (NoHash).
FileStates ==
    {[tracked |-> FALSE, hash |-> NoHash]}
    \cup {[tracked |-> TRUE, hash |-> h] : h \in Hashes \cup {NoHash}}

Untracked == [tracked |-> FALSE, hash |-> NoHash]

\* A repository that Repo(repo_path) cannot open has no visible files.
RepoStates(repo) ==
    {[readable |-> TRUE, files |-> f] : f \in [PathsOf(repo) -> FileStates]}
    \cup {[readable |-> FALSE, files |-> [p \in PathsOf(repo) |-> Untracked]]}

LiveStates == {l \in [Repos -> UNION {RepoStates(r) : r \in Repos}] :
                  \A r \in Repos : l[r] \in RepoStates(r)}

Snapshots == UNION {[ks -> Hashes] : ks \in SUBSET Keys}

\* _get_file_commit_hash (lines 149-166): the hash, or "" when none is found.
GetFileCommitHash(l, repo, path) == l[repo].files[path].hash

GetRepoFiles_KeepsEmptyHash(l, repo) ==
    IF ~l[repo].readable THEN {}
    ELSE {<<repo, p>> : p \in {q \in PathsOf(repo) : l[repo].files[q].tracked}}

\* _get_repo_files (lines 123-147): the keys of the blobs of the tree whose
\* commit hash is found; nothing when the repository cannot be opened.
GetRepoFiles(l, repo) ==
    IF ~l[repo].readable THEN {}
    ELSE {<<repo, p>> : p \in {q \in PathsOf(repo) :
                                  /\ l[repo].files[q].tracked
                                  /\ GetFileCommitHash(l, repo, q) # NoHash}}

\* _get_current_files (lines 106-121): key -> hash over all given repositories.
GetCurrentFiles(l, rps) ==
    LET ks == UNION {GetRepoFiles(l, r) : r \in rps}
    IN  [k \in ks |-> GetFileCommitHash(l, k[1], k[2])]

FileChange(k, old, new) ==
    [file_path |-> k, old_hash |-> Short7(old), new_hash |-> Short7(new)]

\* check_changes (lines 65-104)
CheckChangesReport(snap, l, rps) ==
    LET outline_files == DOMAIN snap
        current_files == GetCurrentFiles(l, rps)
        cur           == DOMAIN current_files
        IsRemoved(k)   == k \in outline_files /\ k \notin cur
        IsUnchanged(k) == k \in outline_files /\ k \in cur /\ snap[k] = current_files[k]
        IsChanged(k)   == k \in outline_files /\ k \in cur /\ snap[k] # current_files[k]
        IsNew(k)       == k \in cur /\ k \notin outline_files
        changed_keys   == SelectSeq(KeyOrder, IsChanged)
    IN  [doc_path |-> "doc",
         changed_files |-> [i \in 1..Len(changed_keys) |->
                               FileChange(changed_keys[i], snap[changed_keys[i]],
                                          current_files[changed_keys[i]])],
         new_files |-> SelectSeq(KeyOrder, IsNew),
         removed_files |-> SelectSeq(KeyOrder, IsRemoved),
         unchanged_files |-> SelectSeq(KeyOrder, IsUnchanged)]

NeedsRegeneration_IgnoresNew(rep) ==
    Len(rep.changed_files) > 0 \/ Len(rep.removed_files) > 0

\* ChangeReport.needs_regeneration (lines 29-35)
NeedsRegeneration(rep) ==
    Len(rep.changed_files) > 0 \/ Len(rep.new_files) > 0 \/ Len(rep.removed_files) > 0

\* ChangeReport.total_changes (lines 37-43)
TotalChanges(rep) ==
    Len(rep.changed_files) + Len(rep.new_files) + Len(rep.removed_files)

NoReport ==
    [doc_path |-> "none", changed_files |-> <<>>, new_files |-> <<>>,
     removed_files |-> <<>>, unchanged_files |-> <<>>]

\* orchestration._collect_source_files (lines 222-240): the commit hash of
\* every file of the given repositories that the patterns match.
CollectCommitHashes(l, rps, matched) ==
    LET ks == {k \in Keys : k[1] \in rps /\ l[k[1]].files[k[2]].tracked /\ k \in matched}
    IN  [k \in ks |-> GetFileCommitHash(l, k[1], k[2])]

DetectorInit ==
    /\ live \in LiveStates
    /\ repo_paths \in SUBSET Repos
    /\ snapshot \in Snapshots
    /\ d_fresh = FALSE
    /\ report = NoReport
    /\ d_stale = FALSE
    /\ d_pc = "idle"

DetectorIdle ==
    /\ live = [r \in Repos |-> [readable |-> FALSE, files |-> [p \in PathsOf(r) |-> Untracked]]]
    /\ repo_paths = {}
    /\ snapshot = << >>
    /\ d_fresh = FALSE
    /\ report = NoReport
    /\ d_stale = FALSE
    /\ d_pc = "idle"

\* The outline step of regeneration (orchestration lines 169-186): clone the
\* repositories of the source specification, record the hashes of the files
\* the include/exclude patterns match, and save them with the outline.  It
\* fails (nothing is saved) when a clone or a commit lookup fails.
RecordSnapshot(matched) ==
    /\ \A r \in repo_paths : live[r].readable
    /\ \A k \in DOMAIN CollectCommitHashes(live, repo_paths, matched) :
           GetFileCommitHash(live, k[1], k[2]) # NoHash
    /\ snapshot' = CollectCommitHashes(live, repo_paths, matched)
    /\ d_fresh' = TRUE
    /\ report' = NoReport
    /\ d_stale' = FALSE
    /\ d_pc' = "idle"
    /\ UNCHANGED <<live, repo_paths>>
    /\ UNCHANGED not_detector

\* check_changes as _find_changed_docs calls it (orchestration lines 140-144).
CheckChanges ==
    /\ report' = CheckChangesReport(snapshot, live, repo_paths)
    /\ d_stale' = NeedsRegeneration(report')
    /\ d_pc' = "reported"
    /\ UNCHANGED <<live, repo_paths, snapshot, d_fresh>>
    /\ UNCHANGED not_detector

\* The environment: a commit touches (or adds) a file of a readable repository.
Commit(repo, path, h) ==
    /\ live[repo].readable
    /\ live[repo].files[path].hash # h
    /\ live' = [live EXCEPT ![repo].files[path] = [tracked |-> TRUE, hash |-> h]]
    /\ d_fresh' = FALSE
    /\ d_pc' = "idle"
    /\ UNCHANGED <<repo_paths, snapshot, report, d_stale>>
    /\ UNCHANGED not_detector

DetectorNext ==
    \/ \E matched \in SUBSET Keys : RecordSnapshot(matched)
    \/ CheckChanges
    \/ \E r \in Repos : \E p \in PathsOf(r) : \E h \in Hashes : Commit(r, p, h)

-----------------------------------------------------------------------------
(* Source references and how their content is fetched                       *)

\* A file locator. kind "path": a repository-relative path, no scheme;
\* "blob": https://github.com/o/r/blob/<rev>/<path>; "raw":
\* https://raw.githubusercontent.com/o/r/<rev>/<path>; "web": any other
\* http(s) URL. rev is the branch or commit segment of a blob or raw URL.
Url(kind, rev, path) == [kind |-> kind, rev |-> rev, path |-> path]

NoUrl == Url("none", "", "")

RemotePaths == {"a.py", "b.md"}

Branch == "main"

Commits == {"c1"}

\* SourceReference.commit when the outline has no pin (None).
NoCommit == "<none>"

\* What fetching a remote path ends in: the content, a URLError (host
\* unreachable, 404), or an exception urlopen and read raise that is not a
\* URLError (http.client.InvalidURL for a path with a space, IncompleteRead).
FetchOutcomes == {"content", "URLError", "InvalidURL"}

RemoteStates == [RemotePaths -> FetchOutcomes]

\* outline_models.SourceReference (lines 9-26)
SourceReference(file, reasoning, commit) ==
    [file |-> file, reasoning |-> reasoning, commit |-> commit]

\* str.startswith(("http://", "https://")) on source.file (line 242)
IsHttpUrl(file) == file.kind \in {"blob", "raw", "web"}

\* _parse_github_url (lines 159-187): the blob and the raw pattern; the
\* revision segment is matched and thrown away.
ParseGithubUrl(file) ==
    IF file.kind \in {"blob", "raw"} THEN Url("parsed", "", file.path) ELSE NoUrl

\* _github_url_to_raw (lines 189-208)
GithubUrlToRaw(file, commit) ==
    IF ParseGithubUrl(file) = NoUrl THEN NoUrl
    ELSE Url("raw", commit, ParseGithubUrl(file).path)

\* urlopen(url).read().decode() as both _fetch_remote_file (lines 210-224) and
\* _fetch_source_file (validator.py lines 83-97) call it: a locator without a
\* scheme makes urlopen raise ValueError, any other ends as the remote
\* dictates.
UrlOpen(rem, url) ==
    IF url.kind = "path" THEN "ValueError"
    ELSE IF url.path \in DOMAIN rem THEN rem[url.path]
    ELSE "URLError"

\* The exceptions both fetch functions catch and turn into None.
CaughtByFetch == {"URLError", "TimeoutError", "UnicodeDecodeError"}

\* The text fetched from an address.
ContentOf(url) == <<"content", url.path, url.rev>>

\* One urlopen call: the reference it is made for and the address it opens.
Fetch(source, url) == [source |-> source, address |-> url]

\* _read_source_files (lines 226-271) for the references from index i on:
\* the entries of source_parts, the addresses fetched, and the exception that
\* escaped, if one did ("none" otherwise; the entries are then lost).
RECURSIVE ReadSourceFiles(_, _, _)
ReadSourceFiles(rem, sources, i) ==
    IF i > Len(sources) THEN [error |-> "none", parts |-> <<>>, fetched |-> <<>>]
    ELSE
      LET source == sources[i]
          rest   == ReadSourceFiles(rem, sources, i + 1)
          note(text) == [rest EXCEPT !.parts = << <<source.file, text>> >> \o @]
          raw_url == GithubUrlToRaw(source.file, source.commit)
          outcome == UrlOpen(rem, raw_url)
      IN  IF ~IsHttpUrl(source.file) THEN note("(must be a GitHub URL)")
          ELSE IF source.commit = NoCommit THEN note("(requires commit hash)")
          ELSE IF raw_url = NoUrl THEN note("(invalid GitHub URL)")
          ELSE IF outcome \in CaughtByFetch
               THEN [note("(failed to fetch from GitHub)") EXCEPT
                        !.fetched = <<Fetch(source, raw_url)>> \o @]
          ELSE IF outcome # "content"
               THEN [error |-> outcome, parts |-> <<>>,
                     fetched |-> <<Fetch(source, raw_url)>>]
          ELSE [rest EXCEPT
                   !.parts = << <<source.file, source.reasoning, ContentOf(raw_url)>> >> \o @,
                   !.fetched = <<Fetch(source, raw_url)>> \o @]

\* The sources an outline gives a section, by heading: none for the first
\* heading; for the second one reference of every kind _read_source_files
\* tells apart, and two pinned GitHub references.
SourcesOf(h) ==
    IF h = "# H" THEN <<>>
    ELSE << SourceReference(Url("blob", Branch, "a.py"), "why", "c1"),
            SourceReference(Url("path", "", "a.py"), "why", "c1"),
            SourceReference(Url("blob", Branch, "a.py"), "why", NoCommit),
            SourceReference(Url("web", "", "a.py"), "why", "c1"),
            SourceReference(Url("raw", Branch, "b.md"), "", "c1") >>

\* validator.py lines 116-120: a github.com blob URL becomes a raw URL by
\* two textual replacements; the revision segment stays what it was, and
\* any other locator is fetched as it is.
ValidatorFetchUrl(file) ==
    IF file.kind = "blob" THEN Url("raw", file.rev, file.path) ELSE file

HasKey(dict, file) == \E j \in 1..Len(dict) : dict[j][1] = file

\* DocumentValidator._read_source_files (validator.py lines 99-135) over the
\* references of an outline in section order, from index i on, with the
\* dictionary built so far (kept as its items in insertion order).
RECURSIVE ValidatorReadSourceFiles(_, _, _, _)
ValidatorReadSourceFiles(rem, sources, i, dict) ==
    IF i > Len(sources) THEN [error |-> "none", sources |-> dict, fetched |-> <<>>]
    ELSE
      LET source  == sources[i]
          url     == ValidatorFetchUrl(source.file)
          outcome == UrlOpen(rem, url)
          rest(dd) == ValidatorReadSourceFiles(rem, sources, i + 1, dd)
      IN  IF HasKey(dict, source.file) THEN rest(dict)
          ELSE IF outcome = "content"
               THEN [rest(Append(dict, <<source.file, ContentOf(url)>>)) EXCEPT
                        !.fetched = <<Fetch(source, url)>> \o @]
          ELSE IF outcome \in CaughtByFetch
               THEN [rest(dict) EXCEPT !.fetched = <<Fetch(source, url)>> \o @]
          ELSE [error |-> outcome, sources |-> <<>>, fetched |-> <<Fetch(source, url)>>]

MaxSources == 2

SourceFiles ==
    { Url("blob", Branch, "a.py"), Url("raw", Branch, "b.md"),
      Url("path", "", "a.py"), Url("web", "", "a.py") }

SourceReferences ==
    { SourceReference(f, "why", c) : f \in SourceFiles, c \in Commits \cup {NoCommit} }

SourceLists == SeqsUpTo(SourceReferences, MaxSources)

\* Reading the references of one outline, once by the generator for a
\* section prompt and once by the validator for its prompts.
SourceReadInit ==
    /\ sr_sources \in SourceLists
    /\ sr_remote \in RemoteStates
    /\ sr_pc = "idle"
    /\ sr_log = <<>>
    /\ sr_error = "none"

SourceReadIdle ==
    /\ sr_sources = <<>>
    /\ sr_remote = [p \in RemotePaths |-> "content"]
    /\ sr_pc = "done"
    /\ sr_log = <<>>
    /\ sr_error = "none"

\* DocumentGenerator._read_source_files on a section with these references.
GeneratorReads ==
    /\ sr_pc = "idle"
    /\ LET r == ReadSourceFiles(sr_remote, sr_sources, 1)
       IN  /\ sr_log' = [j \in 1..Len(r.fetched) |->
                            [by |-> "generator", source |-> r.fetched[j].source,
                             address |-> r.fetched[j].address]]
           /\ sr_error' = r.error
    /\ sr_pc' = "generator"
    /\ UNCHANGED <<sr_sources, sr_remote>>
    /\ UNCHANGED not_source_read

\* DocumentValidator._read_source_files on an outline with these references.
ValidatorReads ==
    /\ sr_pc \in {"idle", "generator"}
    /\ LET r == ValidatorReadSourceFiles(sr_remote, sr_sources, 1, <<>>)
       IN  /\ sr_log' = sr_log \o [j \in 1..Len(r.fetched) |->
                            [by |-> "validator", source |-> r.fetched[j].source,
                             address |-> r.fetched[j].address]]
           /\ sr_error' = IF sr_error # "none" THEN sr_error ELSE r.error
    /\ sr_pc' = "done"
    /\ UNCHANGED <<sr_sources, sr_remote>>
    /\ UNCHANGED not_source_read

SourceReadNext ==
    \/ GeneratorReads
    \/ ValidatorReads

-----------------------------------------------------------------------------
(* DocumentGenerator                                                        *)

MaxSections == 3

MaxReuseSections == 2

Headings == {"# H", "## S"}

\* outline_models.Section (lines 29-37), the fields the traversal reads.
Section(h, subs) == [heading |-> h, sources |-> SourcesOf(h), sections |-> subs]

\* Every list of Section trees with exactly n sections in all.
RECURSIVE OutlinesOfSize(_)
OutlinesOfSize(n) ==
    IF n = 0 THEN {<<>>}
    ELSE UNION {
           {<<Section(h, subs)>> \o rest :
               h \in Headings, subs \in OutlinesOfSize(k), rest \in OutlinesOfSize(n - 1 - k)}
           : k \in 0..(n - 1)}

Outlines == UNION {OutlinesOfSize(n) : n \in 0..MaxSections}

\* What llm_client.generate can return for a section, as lines of text.
SectionResponses == { <<"c">>, <<"", "d", "">> }

NotWritten == <<"<not written>">>

\* _count_sections (lines 87-92)
RECURSIVE CountSections(_)
CountSections(sections) ==
    IF sections = <<>> THEN 0
    ELSE 1 + CountSections(Head(sections).sections) + CountSections(Tail(sections))

\* "\n\n".join(parts): the parts with the separator between them.
RECURSIVE Join(_)
Join(parts) ==
    IF parts = <<>> THEN <<>>
    ELSE IF Len(parts) = 1 THEN parts[1]
    ELSE parts[1] \o <<"SEP">> \o Join(Tail(parts))

\* The entry of service_calls.content for a call that raised.
Raised == <<"<raised>">>

EmitHeading_Skipped(buffer, section) == buffer

\* _generate_section lines 122-125: the heading goes into generated_document
\* before the content is asked for.
EmitHeading(buffer, section) == Append(buffer, <<section.heading>>)

SectionText_SubsectionsFirst(parts, subsection_parts) ==
    Join(IF subsection_parts # <<>>
         THEN <<Join(subsection_parts)>> \o parts
         ELSE parts)

\* _generate_section lines 150-157: the joined subsections, if any, are the
\* last of the parts, and the parts are joined.
SectionText(parts, subsection_parts) ==
    Join(IF subsection_parts # <<>>
         THEN Append(parts, Join(subsection_parts))
         ELSE parts)

OutputAfterSection_Incremental(file, parts) == Join(parts)

\* generate_from_outline lines 63-66: a finished top-level section is kept
\* in document_parts; the output file is left as it is.
OutputAfterSection(file, parts) == file

Subsections_None(section) == <<>>

\* _generate_section lines 144-146: the subsections the loop recurses into.
Subsections(section) == section.sections

\* One _generate_section call: its argument, where it is, and its locals.
Frame(section, path) ==
    [section |-> section, path |-> path, at |-> "generate",
     parts |-> << <<section.heading>> >>, subsection_parts |-> <<>>, next |-> 1]

GeneratorInit ==
    /\ outline \in Outlines
    /\ g_pc = "idle"
    /\ g_stack = <<>>
    /\ document_parts = <<>>
    /\ generated_document = <<>>
    /\ section_context = <<>>
    /\ sections_completed = 0
    /\ total_sections = 0
    /\ service_calls = <<>>
    /\ output_file = NotWritten
    /\ remote \in RemoteStates
    /\ outline_updated = FALSE
    /\ g_error = "none"
    /\ g_effects = <<>>
    /\ g_call = "first"

GeneratorIdle ==
    /\ outline = <<>>
    /\ g_pc = "idle"
    /\ g_stack = <<>>
    /\ document_parts = <<>>
    /\ generated_document = <<>>
    /\ section_context = <<>>
    /\ sections_completed = 0
    /\ total_sections = 0
    /\ service_calls = <<>>
    /\ output_file = NotWritten
    /\ remote = [p \in RemotePaths |-> "content"]
    /\ outline_updated = FALSE
    /\ g_error = "none"
    /\ g_effects = <<>>
    /\ g_call = "first"

\* generate_from_outline lines 47-61: load, count, start with no parts. A
\* second call on the same instance, after the first returned or raised,
\* does the same: generated_document and section_context are set in
\* __init__ only (lines 28-29). The log of the call and its output file
\* start anew. The second call is followed for outlines of up to
\* MaxReuseSections sections.
GenerateFromOutline ==
    /\ \/ g_pc = "idle"
       \/ /\ g_pc \in {"done", "raised"}
          /\ g_call = "first"
          /\ CountSections(outline) <= MaxReuseSections
    /\ g_call' = IF g_pc = "idle" THEN "first" ELSE "second"
    /\ g_pc' = "running"
    /\ total_sections' = CountSections(outline)
    /\ sections_completed' = 0
    /\ document_parts' = <<>>
    /\ g_stack' = <<>>
    /\ service_calls' = <<>>
    /\ output_file' = NotWritten
    /\ g_error' = "none"
    /\ g_effects' = <<>>
    /\ UNCHANGED <<outline, remote, outline_updated, generated_document, section_context>>
    /\ UNCHANGED not_generator

\* The section the traversal calls _generate_section on next, if any: the next
\* top-level section (line 64) or the next subsection of the innermost call
\* (line 146).
NextSection ==
    IF g_stack = <<>>
    THEN IF Len(document_parts) < Len(outline)
         THEN << Frame(outline[Len(document_parts) + 1], <<Len(document_parts) + 1>>) >>
         ELSE <<>>
    ELSE LET top  == g_stack[Len(g_stack)]
             subs == Subsections(top.section)
         IN  IF top.at = "children" /\ top.next <= Len(subs)
             THEN << Frame(subs[top.next], Append(top.path, top.next)) >>
             ELSE <<>>

\* _generate_section lines 106-125: count the section, start parts with the
\* heading and append the heading to generated_document.
EnterSection ==
    /\ g_pc = "running"
    /\ NextSection # <<>>
    /\ LET f == NextSection[1]
       IN  /\ g_stack' = Append(g_stack, f)
           /\ sections_completed' = sections_completed + 1
           /\ generated_document' = EmitHeading(generated_document, f.section)
    /\ UNCHANGED <<g_call, outline, remote, outline_updated, g_error, g_effects,
                   g_pc, document_parts, section_context, total_sections,
                   service_calls, output_file>>
    /\ UNCHANGED not_generator

\* _generate_section lines 128-141 with _generate_section_content: one call of
\* the service; its stripped answer goes to parts, generated_document and the
\* context stack.
GenerateContent(resp) ==
    /\ g_pc = "running"
    /\ g_stack # <<>>
    /\ g_stack[Len(g_stack)].at = "generate"
    /\ ReadSourceFiles(remote, g_stack[Len(g_stack)].section.sources, 1).error = "none"
    /\ LET n       == Len(g_stack)
           top     == g_stack[n]
           content == Strip(resp)
       IN  /\ service_calls' = Append(service_calls,
                  [path |-> top.path, heading |-> top.section.heading,
                   buffer |-> generated_document,
                   document_so_far |-> Join(generated_document),
                   context |-> section_context,
                   sources |-> ReadSourceFiles(remote, top.section.sources, 1),
                   content |-> content])
           /\ g_stack' = [g_stack EXCEPT ![n].parts = Append(top.parts, content),
                                         ![n].at = "children"]
           /\ generated_document' = Append(generated_document, content)
           /\ section_context' = Append(section_context, content)
    /\ UNCHANGED <<g_call, outline, remote, outline_updated, g_error, g_effects,
                   g_pc, document_parts, sections_completed, total_sections,
                   output_file>>
    /\ UNCHANGED not_generator

\* llm_client.generate raises: the exception leaves generate_from_outline.
GenerateRaises ==
    /\ g_pc = "running"
    /\ g_stack # <<>>
    /\ g_stack[Len(g_stack)].at = "generate"
    /\ ReadSourceFiles(remote, g_stack[Len(g_stack)].section.sources, 1).error = "none"
    /\ LET top == g_stack[Len(g_stack)]
       IN  service_calls' = Append(service_calls,
               [path |-> top.path, heading |-> top.section.heading,
                buffer |-> generated_document,
                document_so_far |-> Join(generated_document),
                context |-> section_context,
                sources |-> ReadSourceFiles(remote, top.section.sources, 1),
                content |-> Raised])
    /\ g_pc' = "raised"
    /\ g_error' = "LLMError"
    /\ g_stack' = <<>>
    /\ UNCHANGED <<g_call, outline, remote, outline_updated, g_effects,
                   document_parts, generated_document, section_context,
                   sections_completed, total_sections, output_file>>
    /\ UNCHANGED not_generator

\* _read_source_files lets an exception of a fetch through (lines 219-224
\* catch three types only): it leaves generate_from_outline before the
\* service is called for the section.
ReadSourcesRaises ==
    /\ g_pc = "running"
    /\ g_stack # <<>>
    /\ g_stack[Len(g_stack)].at = "generate"
    /\ ReadSourceFiles(remote, g_stack[Len(g_stack)].section.sources, 1).error # "none"
    /\ g_error' = ReadSourceFiles(remote, g_stack[Len(g_stack)].section.sources, 1).error
    /\ g_pc' = "raised"
    /\ g_stack' = <<>>
    /\ UNCHANGED <<g_call, outline, remote, outline_updated, g_effects, document_parts,
                   generated_document, section_context, sections_completed,
                   total_sections, service_calls, output_file>>
    /\ UNCHANGED not_generator

\* _generate_section lines 150-157: after the last subsection, add the joined
\* subsections to parts, pop the context stack and return the joined parts to
\* the caller (lines 147-148 or 65-66).
ExitSection ==
    /\ g_pc = "running"
    /\ g_stack # <<>>
    /\ g_stack[Len(g_stack)].at = "children"
    /\ NextSection = <<>>
    /\ LET n     == Len(g_stack)
           top   == g_stack[n]
           text  == SectionText(top.parts, top.subsection_parts)
       IN  /\ section_context' = SubSeq(section_context, 1, Len(section_context) - 1)
           /\ IF n = 1
              THEN /\ g_stack' = <<>>
                   /\ document_parts' = Append(document_parts, text)
                   /\ output_file' = OutputAfterSection(output_file,
                                                        Append(document_parts, text))
              ELSE /\ g_stack' = [SubSeq(g_stack, 1, n - 1) EXCEPT
                                     ![n - 1].subsection_parts =
                                         Append(g_stack[n - 1].subsection_parts, text),
                                     ![n - 1].next = g_stack[n - 1].next + 1]
                   /\ document_parts' = document_parts
                   /\ output_file' = output_file
    /\ UNCHANGED <<g_call, outline, remote, outline_updated, g_error, g_effects,
                   g_pc, generated_document, sections_completed,
                   total_sections, service_calls>>
    /\ UNCHANGED not_generator

\* generate_from_outline lines 68-85: join the parts, write the file, return.
WriteDocument ==
    /\ g_pc = "running"
    /\ g_stack = <<>>
    /\ NextSection = <<>>
    /\ output_file' = Join(document_parts)
    /\ g_effects' = g_effects
                     \o (IF outline_updated THEN <<"outline.save">> ELSE <<>>)
                     \o <<"mkdir", "output_file.write_text">>
    /\ g_pc' = "done"
    /\ UNCHANGED <<g_call, outline, remote, outline_updated, g_error,
                   g_stack, document_parts, generated_document,
                   section_context, sections_completed, total_sections, service_calls>>
    /\ UNCHANGED not_generator

GeneratorNext ==
    \/ GenerateFromOutline
    \/ EnterSection
    \/ \E resp \in SectionResponses : GenerateContent(resp)
    \/ GenerateRaises
    \/ ReadSourcesRaises
    \/ ExitSection
    \/ WriteDocument

-----------------------------------------------------------------------------
(* Outline files: DocumentOutline.to_dict, save and load                    *)

\* JSON values as json.dumps takes them and json.loads returns them. A dict
\* keeps its keys in insertion order.
JStr(x) == [t |-> "str", s |-> x]
JInt(n) == [t |-> "int", n |-> n]
JFloat(x) == [t |-> "float", x |-> x]
JNull == [t |-> "null"]
JList(items) == [t |-> "list", items |-> items]
JDict(keys, vals) == [t |-> "dict", keys |-> keys, vals |-> vals]

\* The numbers an outline file holds, and their decimal text.
Numbers == {1, 2, 3, 4000, 8000}

NumberText(n) ==
    CASE n = 1 -> "1" [] n = 2 -> "2" [] n = 3 -> "3"
      [] n = 4000 -> "4000" [] n = 8000 -> "8000"

TextNumber(x) == CHOOSE n \in Numbers : NumberText(n) = x

\* json.dumps: the text of a value as its sequence of tokens. A string is
\* the token STR and its characters, a number the token NUM and its digits.
RECURSIVE JsonDumps(_), DumpItems(_), DumpMembers(_, _)
JsonDumps(v) ==
    CASE v.t = "str"  -> <<"STR", v.s>>
      [] v.t = "int"  -> <<"NUM", NumberText(v.n)>>
      [] v.t = "float" -> <<"NUM", v.x>>
      [] v.t = "null" -> <<"null">>
      [] v.t = "list" -> <<"[">> \o DumpItems(v.items) \o <<"]">>
      [] v.t = "dict" -> <<"{">> \o DumpMembers(v.keys, v.vals) \o <<"}">>

DumpItems(items) ==
    IF items = <<>> THEN <<>>
    ELSE JsonDumps(Head(items)) \o DumpItems(Tail(items))

DumpMembers(keys, vals) ==
    IF keys = <<>> THEN <<>>
    ELSE <<"KEY", Head(keys)>> \o JsonDumps(Head(vals))
         \o DumpMembers(Tail(keys), Tail(vals))

\* json.loads: the value at the head of a token sequence and the tokens
\* that follow it.
RECURSIVE JsonParse(_), ParseItems(_, _), ParseMembers(_, _, _)
JsonParse(toks) ==
    CASE Head(toks) = "STR"  -> [v |-> JStr(toks[2]), rest |-> SubSeq(toks, 3, Len(toks))]
      [] Head(toks) = "NUM"  -> [v |-> IF \E n \in Numbers : NumberText(n) = toks[2]
                                       THEN JInt(TextNumber(toks[2]))
                                       ELSE JFloat(toks[2]),
                                 rest |-> SubSeq(toks, 3, Len(toks))]
      [] Head(toks) = "null" -> [v |-> JNull, rest |-> Tail(toks)]
      [] Head(toks) = "["    -> ParseItems(Tail(toks), <<>>)
      [] Head(toks) = "{"    -> ParseMembers(Tail(toks), <<>>, <<>>)

ParseItems(toks, items) ==
    IF Head(toks) = "]" THEN [v |-> JList(items), rest |-> Tail(toks)]
    ELSE LET r == JsonParse(toks) IN ParseItems(r.rest, Append(items, r.v))

\* A key met again replaces the value of the first occurrence, as a Python
\* dict does.
ParseMembers(toks, keys, vals) ==
    IF Head(toks) = "}" THEN [v |-> JDict(keys, vals), rest |-> Tail(toks)]
    ELSE LET key == toks[2]
             r   == JsonParse(SubSeq(toks, 3, Len(toks)))
         IN  IF \E j \in 1..Len(keys) : keys[j] = key
             THEN LET j == CHOOSE k \in 1..Len(keys) : keys[k] = key
                  IN  ParseMembers(r.rest, keys, [vals EXCEPT ![j] = r.v])
             ELSE ParseMembers(r.rest, Append(keys, key), Append(vals, r.v))

JsonLoads(text) == JsonParse(text).v

\* dict[key] and dict.get(key): the value, or JNull for dict.get of a
\* missing key.
HasMember(dict, key) == \E j \in 1..Len(dict.keys) : dict.keys[j] = key

Member(dict, key) ==
    dict.vals[CHOOSE j \in 1..Len(dict.keys) : dict.keys[j] = key]

MemberOrNone(dict, key) == IF HasMember(dict, key) THEN Member(dict, key) ELSE JNull

\* outline_models.Section (lines 29-37) with all its fields.
OutlineSection(heading, level, prompt, sources, sections) ==
    [heading |-> heading, level |-> level, prompt |-> prompt,
     sources |-> sources, sections |-> sections]

\* outline_models.DocumentOutline (lines 50-62)
DocumentOutline(name, sections, model, max_response_tokens, temperature) ==
    [name |-> name, document_instruction |-> "instruction", title |-> "title",
     output |-> "docs/out.md", sections |-> sections, model |-> model,
     max_response_tokens |-> max_response_tokens, temperature |-> temperature]

DefaultModel == "claude-3-5-sonnet-20241022"

DefaultMaxResponseTokens == 8000

DefaultTemperature == "0.3"

SourceToDict_DropsCommit(source) ==
    JDict(<<"file", "reasoning">>, <<JStr(source.file), JStr(source.reasoning)>>)

\* SourceReference.to_dict (lines 17-26): commit only when it is not None.
SourceToDict(source) ==
    IF source.commit # NoCommit
    THEN JDict(<<"file", "reasoning", "commit">>,
               <<JStr(source.file), JStr(source.reasoning), JStr(source.commit)>>)
    ELSE JDict(<<"file", "reasoning">>, <<JStr(source.file), JStr(source.reasoning)>>)

\* Section.to_dict (lines 39-47)
RECURSIVE SectionToDict(_)
SectionToDict(section) ==
    JDict(<<"heading", "level", "prompt", "sources", "sections">>,
          << JStr(section.heading), JInt(section.level), JStr(section.prompt),
             JList([j \in 1..Len(section.sources) |-> SourceToDict(section.sources[j])]),
             JList([j \in 1..Len(section.sections) |-> SectionToDict(section.sections[j])]) >>)

\* DocumentOutline.to_dict (lines 64-79)
OutlineToDict(o) ==
    JDict(<<"_meta", "document">>,
          << JDict(<<"name", "document_instruction", "model", "max_response_tokens",
                     "temperature">>,
                   <<JStr(o.name), JStr(o.document_instruction), JStr(o.model),
                     JInt(o.max_response_tokens), JFloat(o.temperature)>>),
             JDict(<<"title", "output", "sections">>,
                   <<JStr(o.title), JStr(o.output),
                     JList([j \in 1..Len(o.sections) |-> SectionToDict(o.sections[j])])>>) >>)

\* DocumentOutline.save (lines 81-89): the text written to the file.
SaveText(o) == JsonDumps(OutlineToDict(o))

\* load, lines 98-102: a SourceReference from its dict; src.get("commit") is
\* None for a missing key and for a JSON null.
LoadSource(src) ==
    SourceReference(Member(src, "file").s, Member(src, "reasoning").s,
                    IF MemberOrNone(src, "commit").t = "null" THEN NoCommit
                    ELSE MemberOrNone(src, "commit").s)

\* load, parse_section (lines 95-105)
RECURSIVE ParseSection(_)
ParseSection(s_data) ==
    OutlineSection(
        Member(s_data, "heading").s, Member(s_data, "level").n,
        Member(s_data, "prompt").s,
        [j \in 1..Len(Member(s_data, "sources").items) |->
            LoadSource(Member(s_data, "sources").items[j])],
        [j \in 1..Len(Member(s_data, "sections").items) |->
            ParseSection(Member(s_data, "sections").items[j])])

\* DocumentOutline.load (lines 91-119)
LoadOutline(text) ==
    LET data == JsonLoads(text)
        meta == Member(data, "_meta")
        doc  == Member(data, "document")
    IN  [name |-> Member(meta, "name").s,
         document_instruction |-> Member(meta, "document_instruction").s,
         title |-> Member(doc, "title").s,
         output |-> Member(doc, "output").s,
         sections |-> [j \in 1..Len(Member(doc, "sections").items) |->
                          ParseSection(Member(doc, "sections").items[j])],
         model |-> IF HasMember(meta, "model") THEN Member(meta, "model").s
                   ELSE DefaultModel,
         max_response_tokens |->
             IF HasMember(meta, "max_response_tokens")
             THEN Member(meta, "max_response_tokens").n ELSE DefaultMaxResponseTokens,
         temperature |-> IF HasMember(meta, "temperature")
                         THEN Member(meta, "temperature").x ELSE DefaultTemperature]

MaxOutlineSections == 2

\* What a section of an outline file may hold besides its subsections.
SectionContents ==
    { [heading |-> "# H", level |-> 1, prompt |-> "p", sources |-> <<>>],
      [heading |-> "## S", level |-> 2, prompt |-> "",
       sources |-> << SourceReference("a.py", "why", "c1") >>],
      [heading |-> "## S", level |-> 2, prompt |-> "q",
       sources |-> << SourceReference("a.py", "why", NoCommit) >>],
      [heading |-> "### T", level |-> 3, prompt |-> "p",
       sources |-> << SourceReference("b.md", "", NoCommit),
                      SourceReference("a.py", "why", "c1") >>],
      [heading |-> "# H", level |-> 2, prompt |-> "q",
       sources |-> << SourceReference("b.md", "", "") >>] }

\* Every list of sections with exactly n sections in all.
RECURSIVE SectionListsOfSize(_)
SectionListsOfSize(n) ==
    IF n = 0 THEN {<<>>}
    ELSE UNION {
           {<<OutlineSection(c.heading, c.level, c.prompt, c.sources, subs)>> \o rest :
               c \in SectionContents, subs \in SectionListsOfSize(k),
               rest \in SectionListsOfSize(n - 1 - k)}
           : k \in 0..(n - 1)}

OutlineObjects ==
    { DocumentOutline("doc", secs, DefaultModel, DefaultMaxResponseTokens, DefaultTemperature) :
        secs \in UNION {SectionListsOfSize(n) : n \in 0..MaxOutlineSections} }
    \cup { DocumentOutline("doc", <<>>, "other-model", 4000, "0.7") }

\* Outline files written by hand or by another tool: a commit given as
\* null, no model settings in _meta, the keys in another order.
HandWrittenFiles ==
    { <<"{", "KEY", "document", "{",
             "KEY", "sections", "[",
                "{", "KEY", "sections", "[", "]",
                     "KEY", "sources", "[",
                        "{", "KEY", "commit", "null", "KEY", "file", "STR", "a.py",
                             "KEY", "reasoning", "STR", "why", "}",
                        "{", "KEY", "file", "STR", "b.md", "KEY", "commit", "STR", "c1",
                             "KEY", "reasoning", "STR", "", "}", "]",
                     "KEY", "prompt", "STR", "p", "KEY", "level", "NUM", "1",
                     "KEY", "heading", "STR", "# H", "}", "]",
             "KEY", "output", "STR", "docs/out.md", "KEY", "title", "STR", "title", "}",
           "KEY", "_meta", "{", "KEY", "name", "STR", "doc",
                                "KEY", "document_instruction", "STR", "instruction", "}",
      "}">> }

NoOutline == [name |-> "<no outline>"]

NoFile == <<"<no file>">>

OutlineFileInit ==
    /\ o_saved = NoFile
    /\ \/ /\ o_mem \in OutlineObjects
          /\ o_file = NoFile
          /\ o_orig = o_mem
       \/ /\ o_mem = NoOutline
          /\ o_file \in HandWrittenFiles
          /\ o_orig = LoadOutline(o_file)

OutlineFileIdle ==
    /\ o_mem = NoOutline
    /\ o_file = NoFile
    /\ o_orig = NoOutline
    /\ o_saved = NoFile

\* DocumentOutline.save (lines 81-89)
SaveOutline ==
    /\ o_mem # NoOutline
    /\ o_file' = SaveText(o_mem)
    /\ o_saved' = IF o_saved = NoFile THEN SaveText(o_mem) ELSE o_saved
    /\ UNCHANGED <<o_mem, o_orig>>
    /\ UNCHANGED not_outline_file

\* DocumentOutline.load (lines 91-119)
LoadOutlineFile ==
    /\ o_file # NoFile
    /\ o_mem' = LoadOutline(o_file)
    /\ UNCHANGED <<o_file, o_orig, o_saved>>
    /\ UNCHANGED not_outline_file

\* The process that holds the outline ends; only the file is left.
ProcessEnds ==
    /\ o_mem # NoOutline
    /\ o_file # NoFile
    /\ o_mem' = NoOutline
    /\ UNCHANGED <<o_file, o_orig, o_saved>>
    /\ UNCHANGED not_outline_file

OutlineFileNext ==
    \/ SaveOutline
    \/ LoadOutlineFile
    \/ ProcessEnds

-----------------------------------------------------------------------------
(* BatchOrchestrator                                                        *)

MaxDocs == 3

\* What _find_changed_docs meets for one document: an exception of
\* read_outline or read_sources (FileNotFoundError), of parse_sources_yaml
\* (SourceSpecError) or of clone_repo (GitCommandError), or the answer of
\* needs_regeneration().
FindOutcomes == {"FileNotFoundError", "SourceSpecError", "GitCommandError", "fresh", "stale"}

\* What _regenerate_single_doc meets: where it stops, the message of the
\* exception raised there, the tokens_used of the outline and the words of
\* the markdown, as far as it got.
RegenOutcomes ==
    { [stage |-> "done", message |-> "", tokens_used |-> 100, words |-> 10],
      [stage |-> "sources", message |-> "Missing 'url' field", tokens_used |-> 0,
       words |-> 0],
      [stage |-> "document", message |-> "Generated document is empty",
       tokens_used |-> 100, words |-> 0] }

NoRegen == [stage |-> "none", message |-> "", tokens_used |-> 0, words |-> 0]

DocStates ==
    { [find |-> f, regen |-> NoRegen] : f \in FindOutcomes \ {"stale"} }
    \cup { [find |-> "stale", regen |-> r] : r \in RegenOutcomes }

\* error_message of a successful result (None).
NoMessage == "<none>"

\* line 182: int(len(markdown.split()) * 1.3)
DocTokens(words) == (words * 13) \div 10

RegenerateSingleDoc_GenericMessage(doc_path, doc) ==
    [doc_path |-> doc_path, success |-> doc.regen.stage = "done",
     error_message |-> IF doc.regen.stage = "done" THEN NoMessage ELSE "failed",
     outline_tokens |-> doc.regen.tokens_used,
     doc_tokens |-> DocTokens(doc.regen.words)]

\* _regenerate_single_doc (lines 148-208): the RegenerationResult, with the
\* tokens counted before the exception when one is caught.
RegenerateSingleDoc(doc_path, doc) ==
    [doc_path |-> doc_path, success |-> doc.regen.stage = "done",
     error_message |-> IF doc.regen.stage = "done" THEN NoMessage ELSE doc.regen.message,
     outline_tokens |-> doc.regen.tokens_used,
     doc_tokens |-> DocTokens(doc.regen.words)]

ResultTokens_SuccessOnly(res) ==
    IF res.success THEN res.outline_tokens + res.doc_tokens ELSE 0

\* line 99: what one res adds to total_tokens.
ResultTokens(res) == res.outline_tokens + res.doc_tokens

\* _estimate_cost (lines 242-253), in units of 0.00001 USD.
EstimateCost(total_tokens) == total_tokens * 2

\* BatchReport (lines 29-39)
BatchReport(total_docs, successful, failed, total_tokens, results) ==
    [total_docs |-> total_docs, successful |-> successful, failed |-> failed,
     total_tokens |-> total_tokens, estimated_cost |-> EstimateCost(total_tokens),
     results |-> results]

NoBatchReport == [total_docs |-> -1]

ZeroCounts == [successful |-> 0, failed |-> 0, total_tokens |-> 0]

BatchInit ==
    /\ b_docs \in SeqsUpTo(DocStates, MaxDocs)
    /\ b_pc = "find"
    /\ b_next = 1
    /\ changed_docs = <<>>
    /\ b_results = <<>>
    /\ b_counts = ZeroCounts
    /\ b_report = NoBatchReport
    /\ b_error = "none"

BatchIdle ==
    /\ b_docs = <<>>
    /\ b_pc = "returned"
    /\ b_next = 1
    /\ changed_docs = <<>>
    /\ b_results = <<>>
    /\ b_counts = ZeroCounts
    /\ b_report = NoBatchReport
    /\ b_error = "none"

\* _find_changed_docs, one turn of its loop (lines 123-144): a missing
\* outline or sources file skips the document, any other exception leaves
\* regenerate_changed, a stale document is appended.
FindChangedDoc ==
    /\ b_pc = "find"
    /\ b_next <= Len(b_docs)
    /\ LET doc == b_docs[b_next]
       IN  IF doc.find \in {"SourceSpecError", "GitCommandError"}
           THEN /\ b_pc' = "raised"
                /\ b_error' = doc.find
                /\ UNCHANGED <<b_next, changed_docs>>
           ELSE /\ b_next' = b_next + 1
                /\ changed_docs' = IF doc.find = "stale"
                                   THEN Append(changed_docs, b_next)
                                   ELSE changed_docs
                /\ UNCHANGED <<b_pc, b_error>>
    /\ UNCHANGED <<b_docs, b_results, b_counts, b_report>>
    /\ UNCHANGED not_batch

\* regenerate_changed lines 71-88: after _find_changed_docs returned, the
\* empty report when nothing is stale, else the start of the loop.
FoundChangedDocs ==
    /\ b_pc = "find"
    /\ b_next > Len(b_docs)
    /\ IF changed_docs = <<>>
       THEN /\ b_pc' = "returned"
            /\ b_report' = BatchReport(0, 0, 0, 0, <<>>)
       ELSE /\ b_pc' = "regenerate"
            /\ b_report' = b_report
    /\ b_next' = 1
    /\ UNCHANGED <<b_docs, changed_docs, b_results, b_counts, b_error>>
    /\ UNCHANGED not_batch

\* regenerate_changed, one turn of its loop (lines 90-100).
RegenerateDoc ==
    /\ b_pc = "regenerate"
    /\ b_next <= Len(changed_docs)
    /\ LET doc_path == changed_docs[b_next]
           res   == RegenerateSingleDoc(doc_path, b_docs[doc_path])
       IN  /\ b_results' = Append(b_results, res)
           /\ b_counts' =
                 [successful |-> b_counts.successful + (IF res.success THEN 1 ELSE 0),
                  failed |-> b_counts.failed + (IF res.success THEN 0 ELSE 1),
                  total_tokens |-> b_counts.total_tokens + ResultTokens(res)]
    /\ b_next' = b_next + 1
    /\ UNCHANGED <<b_docs, b_pc, changed_docs, b_report, b_error>>
    /\ UNCHANGED not_batch

\* regenerate_changed lines 102-112
ReturnBatchReport ==
    /\ b_pc = "regenerate"
    /\ b_next > Len(changed_docs)
    /\ b_report' = BatchReport(Len(changed_docs), b_counts.successful, b_counts.failed,
                               b_counts.total_tokens, b_results)
    /\ b_pc' = "returned"
    /\ UNCHANGED <<b_docs, b_next, changed_docs, b_results, b_counts, b_error>>
    /\ UNCHANGED not_batch

BatchNext ==
    \/ FindChangedDoc
    \/ FoundChangedDocs
    \/ RegenerateDoc
    \/ ReturnBatchReport

-----------------------------------------------------------------------------
(* regenerate_module_docs.py: the sequential loop and its checkpoint        *)

MaxModuleDocs == 3

NoCheckpoint == 0

\* module_docs, sorted, as every run over the same selection builds it.
ModuleDocs(n) == [k \in 1..n |-> k]

\* main lines 714-735: the index after the checkpointed document, 0 when
\* there is no checkpoint or the document is not in the list.
StartIndex(docs, last_completed) ==
    IF last_completed = NoCheckpoint THEN 0
    ELSE IF \E i \in 1..Len(docs) : docs[i] = last_completed
         THEN CHOOSE i \in 1..Len(docs) : docs[i] = last_completed
         ELSE 0

CheckpointInit ==
    /\ cp_count \in 1..MaxModuleDocs
    /\ cp_run = 1
    /\ cp_pc = "running"
    /\ cp_queue = ModuleDocs(cp_count)
    /\ cp_checkpoint = NoCheckpoint
    /\ cp_failures = 0
    /\ cp_completed = {}
    /\ cp_processed = <<>>

CheckpointIdle ==
    /\ cp_count = 0
    /\ cp_run = 1
    /\ cp_pc = "finished"
    /\ cp_queue = <<>>
    /\ cp_checkpoint = NoCheckpoint
    /\ cp_failures = 0
    /\ cp_completed = {}
    /\ cp_processed = <<>>

\* One turn of the sequential loop (lines 797-813): process_module_doc
\* returns True, or returns False or raises; save_checkpoint after a success
\* writes the file or only warns (lines 82-95).
ProcessModuleDoc(success, saved) ==
    /\ cp_pc = "running"
    /\ cp_queue # <<>>
    /\ success \/ saved
    /\ LET doc_path == Head(cp_queue)
       IN  /\ cp_checkpoint' = IF success /\ saved THEN doc_path ELSE cp_checkpoint
           /\ cp_failures' = IF success THEN cp_failures ELSE cp_failures + 1
           /\ cp_completed' = IF cp_run = 1 /\ success
                              THEN cp_completed \cup {doc_path} ELSE cp_completed
           /\ cp_processed' = IF cp_run = 2 THEN Append(cp_processed, doc_path)
                              ELSE cp_processed
    /\ cp_queue' = Tail(cp_queue)
    /\ UNCHANGED <<cp_count, cp_run, cp_pc>>
    /\ UNCHANGED not_checkpoint

\* The run is interrupted between two documents.
Interrupted ==
    /\ cp_pc = "running"
    /\ cp_queue # <<>>
    /\ cp_pc' = "stopped"
    /\ UNCHANGED <<cp_count, cp_run, cp_queue, cp_checkpoint, cp_failures,
                   cp_completed, cp_processed>>
    /\ UNCHANGED not_checkpoint

\* The end of the loop (lines 847-849): the checkpoint is cleared when no
\* document failed.
FinishRun ==
    /\ cp_pc = "running"
    /\ cp_queue = <<>>
    /\ cp_pc' = "finished"
    /\ cp_checkpoint' = IF cp_failures = 0 THEN NoCheckpoint ELSE cp_checkpoint
    /\ UNCHANGED <<cp_count, cp_run, cp_queue, cp_failures, cp_completed, cp_processed>>
    /\ UNCHANGED not_checkpoint

\* A new run with --continue over the same list (lines 714-742), after a
\* run that was interrupted or in which documents failed.
ContinueFromCheckpoint ==
    /\ cp_run = 1
    /\ \/ cp_pc = "stopped"
       \/ cp_pc = "finished" /\ cp_failures > 0
    /\ LET docs == ModuleDocs(cp_count)
           start_index == StartIndex(docs, cp_checkpoint)
       IN  cp_queue' = SubSeq(docs, start_index + 1, Len(docs))
    /\ cp_run' = 2
    /\ cp_pc' = "running"
    /\ cp_failures' = 0
    /\ UNCHANGED <<cp_count, cp_checkpoint, cp_completed, cp_processed>>
    /\ UNCHANGED not_checkpoint

CheckpointNext ==
    \/ \E success, saved \in BOOLEAN : ProcessModuleDoc(success, saved)
    \/ Interrupted
    \/ FinishRun
    \/ ContinueFromCheckpoint

-----------------------------------------------------------------------------
(* regenerate_module_docs.py: process_module_doc on a pool of threads       *)

Workers == {"w1", "w2"}

ModuleRepos == {"amplifier-core", "amplifier-app-cli"}

DocNames == {"index.md", "bash.md"}

BaseDir == "base_dir"

\* A document: the repository its source mapping names, its file name, and
\* whether doc-evergreen succeeds on it.
ModuleDocInputs == [repo : ModuleRepos, name : DocNames, generate_ok : BOOLEAN]

\* What doc-evergreen writes: the intent it was given and the repository it
\* ran in.
Generated(w, dir) == [intent |-> w, repo |-> dir]

Outcome(success, copied) == [success |-> success, copied |-> copied]

\* process_module_doc for one document with no other thread running.
ProcessedAlone(w, doc) ==
    IF doc.generate_ok THEN Outcome(TRUE, <<Generated(w, doc.repo)>>)
    ELSE Outcome(FALSE, <<>>)

WorkerPoolInit ==
    /\ wp_docs \in [Workers -> ModuleDocInputs]
    /\ wp_pc = [w \in Workers |-> "clone_repo"]
    /\ wp_cwd = BaseDir
    /\ wp_original_dir = [w \in Workers |-> BaseDir]
    /\ wp_clones = {}
    /\ wp_files = [f \in ModuleRepos \X DocNames |-> <<>>]
    /\ wp_found = [w \in Workers |-> FALSE]
    /\ wp_result = [w \in Workers |-> <<>>]

WorkerPoolIdle ==
    /\ wp_docs = <<>>
    /\ wp_pc = <<>>
    /\ wp_cwd = BaseDir
    /\ wp_original_dir = <<>>
    /\ wp_clones = {}
    /\ wp_files = <<>>
    /\ wp_found = <<>>
    /\ wp_result = <<>>

\* clone_repo, lines 291-296: clone_path.exists().
CloneExists(w) ==
    /\ wp_pc[w] = "clone_repo"
    /\ wp_pc' = [wp_pc EXCEPT ![w] =
                    IF wp_docs[w].repo \in wp_clones THEN "getcwd" ELSE "git_clone"]
    /\ UNCHANGED <<wp_docs, wp_cwd, wp_original_dir, wp_clones, wp_files,
                   wp_found, wp_result>>
    /\ UNCHANGED not_worker_pool

\* clone_repo, lines 300-311: git clone into clone_path; git refuses a
\* destination that exists by now, clone_repo returns None and
\* process_module_doc returns False.
GitClone(w) ==
    /\ wp_pc[w] = "git_clone"
    /\ IF wp_docs[w].repo \in wp_clones
       THEN /\ wp_pc' = [wp_pc EXCEPT ![w] = "done"]
            /\ wp_result' = [wp_result EXCEPT ![w] = <<Outcome(FALSE, <<>>)>>]
            /\ UNCHANGED wp_clones
       ELSE /\ wp_pc' = [wp_pc EXCEPT ![w] = "getcwd"]
            /\ wp_clones' = wp_clones \cup {wp_docs[w].repo}
            /\ UNCHANGED wp_result
    /\ UNCHANGED <<wp_docs, wp_cwd, wp_original_dir, wp_files, wp_found>>
    /\ UNCHANGED not_worker_pool

\* generate_docs, line 355: original_dir = Path.cwd().
GetCwd(w) ==
    /\ wp_pc[w] = "getcwd"
    /\ wp_original_dir' = [wp_original_dir EXCEPT ![w] = wp_cwd]
    /\ wp_pc' = [wp_pc EXCEPT ![w] = "chdir"]
    /\ UNCHANGED <<wp_docs, wp_cwd, wp_clones, wp_files, wp_found, wp_result>>
    /\ UNCHANGED not_worker_pool

\* generate_docs, line 359: os.chdir(repo_path), for the whole process.
Chdir(w) ==
    /\ wp_pc[w] = "chdir"
    /\ wp_cwd' = wp_docs[w].repo
    /\ wp_pc' = [wp_pc EXCEPT ![w] = "doc_evergreen"]
    /\ UNCHANGED <<wp_docs, wp_original_dir, wp_clones, wp_files, wp_found, wp_result>>
    /\ UNCHANGED not_worker_pool

\* generate_docs, lines 364-370: doc-evergreen generate runs in the working
\* directory the process has when it is started and writes output_name
\* there; CalledProcessError when it fails.
DocEvergreen(w) ==
    /\ wp_pc[w] = "doc_evergreen"
    /\ IF wp_docs[w].generate_ok
       THEN /\ wp_files' = [wp_files EXCEPT ![<<wp_cwd, wp_docs[w].name>>] =
                               <<Generated(w, wp_cwd)>>]
            /\ wp_pc' = [wp_pc EXCEPT ![w] = "exists"]
       ELSE /\ wp_pc' = [wp_pc EXCEPT ![w] = "finally"]
            /\ UNCHANGED wp_files
    /\ UNCHANGED <<wp_docs, wp_cwd, wp_original_dir, wp_clones, wp_found, wp_result>>
    /\ UNCHANGED not_worker_pool

\* generate_docs, lines 374-380: generated_file = repo_path / output_name
\* and generated_file.exists().
GeneratedFileExists(w) ==
    /\ wp_pc[w] = "exists"
    /\ wp_found' = [wp_found EXCEPT ![w] =
                       wp_files[<<wp_docs[w].repo, wp_docs[w].name>>] # <<>>]
    /\ wp_pc' = [wp_pc EXCEPT ![w] = "finally"]
    /\ UNCHANGED <<wp_docs, wp_cwd, wp_original_dir, wp_clones, wp_files, wp_result>>
    /\ UNCHANGED not_worker_pool

\* generate_docs, lines 385-386: os.chdir(original_dir); without a generated
\* file process_module_doc returns False (lines 505-508).
Finally(w) ==
    /\ wp_pc[w] = "finally"
    /\ wp_cwd' = wp_original_dir[w]
    /\ IF wp_found[w]
       THEN /\ wp_pc' = [wp_pc EXCEPT ![w] = "copy"]
            /\ UNCHANGED wp_result
       ELSE /\ wp_pc' = [wp_pc EXCEPT ![w] = "done"]
            /\ wp_result' = [wp_result EXCEPT ![w] = <<Outcome(FALSE, <<>>)>>]
    /\ UNCHANGED <<wp_docs, wp_original_dir, wp_clones, wp_files, wp_found>>
    /\ UNCHANGED not_worker_pool

\* copy_generated_docs, lines 403-407: the generated file, as it is now, is
\* copied over the document.
CopyGeneratedDocs(w) ==
    /\ wp_pc[w] = "copy"
    /\ wp_result' = [wp_result EXCEPT ![w] =
                        <<Outcome(TRUE, wp_files[<<wp_docs[w].repo, wp_docs[w].name>>])>>]
    /\ wp_pc' = [wp_pc EXCEPT ![w] = "done"]
    /\ UNCHANGED <<wp_docs, wp_cwd, wp_original_dir, wp_clones, wp_files, wp_found>>
    /\ UNCHANGED not_worker_pool

WorkerPoolNext ==
    \E w \in Workers :
        \/ CloneExists(w)
        \/ GitClone(w)
        \/ GetCwd(w)
        \/ Chdir(w)
        \/ DocEvergreen(w)
        \/ GeneratedFileExists(w)
        \/ Finally(w)
        \/ CopyGeneratedDocs(w)

-----------------------------------------------------------------------------
(* Repository checkouts: RepoManager.clone_repo and the script's clone_repo *)

MaxCheckDocs == 2

MaxCloneRequests == 2

CloneRepos == {"amplifier-core", "amplifier-app-cli"}

\* The source specifications of a document, by repository.
SourceSpecs ==
    { <<"amplifier-core">>, <<"amplifier-app-cli">>,
      <<"amplifier-core", "amplifier-app-cli">>, <<"amplifier-core", "amplifier-core">> }

CloneCall(repo, outcome) == [repo |-> repo, outcome |-> outcome]

\* git clone into clone_path: git refuses a destination that exists and is
\* not empty.
GitCloneInto(dir, repo) == IF repo \in dir THEN "failed" ELSE "cloned"

\* RepoManager.clone_repo (repos.py lines 39-59): Repo.clone_from into
\* temp_dir / repo_name, whatever is there; GitCommandError when git fails.
RepoManagerCloneRepo(dir, repo) == GitCloneInto(dir, repo)

\* clone_repo of the script (lines 285-311): the existing checkout when
\* clone_path exists, otherwise git clone, which can fail.
ScriptCloneRepo(dir, repo, git_ok) ==
    IF repo \in dir THEN "existing"
    ELSE IF git_ok THEN GitCloneInto(dir, repo) ELSE "failed"

\* The clone loop of _check_single_doc (cli.py lines 491-497) from the k-th
\* source specification on: the calls made, up to the first that raises.
RECURSIVE CloneSources(_, _, _)
CloneSources(dir, specs, k) ==
    IF k > Len(specs) THEN [dir |-> dir, calls |-> <<>>, raised |-> FALSE]
    ELSE LET outcome == RepoManagerCloneRepo(dir, specs[k])
         IN  IF outcome = "failed"
             THEN [dir |-> dir, calls |-> <<CloneCall(specs[k], outcome)>>, raised |-> TRUE]
             ELSE LET rest == CloneSources(dir \cup {specs[k]}, specs, k + 1)
                  IN  [rest EXCEPT !.calls = <<CloneCall(specs[k], outcome)>> \o @]

CloneInit ==
    /\ cl_docs \in UNION { [1..n -> SourceSpecs] : n \in 1..MaxCheckDocs }
    /\ cl_next = 1
    /\ cl_temp_dir = {}
    /\ cl_log = <<>>
    /\ cl_statuses = <<>>
    /\ cl_script_dir = {}
    /\ cl_script_log = <<>>

CloneIdle ==
    /\ cl_docs = <<>>
    /\ cl_next = 1
    /\ cl_temp_dir = {}
    /\ cl_log = <<>>
    /\ cl_statuses = <<>>
    /\ cl_script_dir = {}
    /\ cl_script_log = <<>>

\* _check_single_doc for the next document of check-changes (cli.py lines
\* 431-440, 475-536) whose outline is there: any exception of the clone loop
\* is reported as "no_outline".
CheckSingleDoc(changes) ==
    /\ cl_next <= Len(cl_docs)
    /\ LET cloned == CloneSources(cl_temp_dir, cl_docs[cl_next], 1)
       IN  /\ cl_temp_dir' = cloned.dir
           /\ cl_log' = cl_log \o cloned.calls
           /\ cl_statuses' = Append(cl_statuses,
                                    IF cloned.raised THEN "no_outline"
                                    ELSE IF changes THEN "changes" ELSE "up_to_date")
    /\ cl_next' = cl_next + 1
    /\ UNCHANGED <<cl_docs, cl_script_dir, cl_script_log>>
    /\ UNCHANGED not_clone

\* clone_repo as process_module_doc calls it (script lines 496-500).
ScriptClone(repo, git_ok) ==
    /\ Len(cl_script_log) < MaxCloneRequests
    /\ LET outcome == ScriptCloneRepo(cl_script_dir, repo, git_ok)
       IN  /\ cl_script_log' = Append(cl_script_log, CloneCall(repo, outcome))
           /\ cl_script_dir' = IF outcome = "cloned" THEN cl_script_dir \cup {repo}
                               ELSE cl_script_dir
    /\ UNCHANGED <<cl_docs, cl_next, cl_temp_dir, cl_log, cl_statuses>>
    /\ UNCHANGED not_clone

CloneNext ==
    \/ \E changes \in BOOLEAN : CheckSingleDoc(changes)
    \/ \E repo \in CloneRepos, git_ok \in BOOLEAN : ScriptClone(repo, git_ok)

-----------------------------------------------------------------------------
(* cli.py: the exit code of a command                                       *)

MaxInvocations == 2

\* llm_client.py lines 185-193, 339-347: what a failing service call raises.
LLMErrors == {"LLMTimeoutError", "LLMRateLimitError", "LLMAPIError"}

\* An exception that leaves the command function: click prints the
\* traceback and the process ends with 1.
Uncaught == 1

\* ctx.exit(code) called inside the try block of a command that ends with
\* "except Exception": ctx.exit raises click's Exit, a RuntimeError in
\* click 7 and later (caught) and a SystemExit before (not caught). When
\* caught the handler exits 2, or re-raises it with --debug.
ExitInsideTry(code, debug, caught) ==
    IF caught /\ ~debug THEN 2 ELSE code

\* The last handler of a command: "except Exception", re-raised with --debug.
UnexpectedError(debug) == IF debug THEN Uncaught ELSE 2

\* generate_outline, lines 164-274.
GenerateOutlineExit(event, debug) ==
    CASE event = "ok" -> 0
      [] event = "FileNotFoundError" -> 1
      [] event \in LLMErrors -> 1
      [] OTHER -> UnexpectedError(debug)

\* generate_doc, lines 280-397.
GenerateDocExit(event, debug) ==
    CASE event = "ok" -> 0
      [] event = "FileNotFoundError" -> 1
      [] event \in LLMErrors -> 1
      [] event = "DocumentValidationError" -> 1
      [] OTHER -> UnexpectedError(debug)

\* check_changes, lines 404-472.
CheckChangesExit(event) ==
    CASE event = "no_docs" -> 0
      [] event = "changes" -> 1
      [] OTHER -> 0

\* validate_sources, lines 71-120.
ValidateSourcesExit(event, debug, caught) ==
    CASE event = "valid" -> ExitInsideTry(0, debug, caught)
      [] event = "invalid" -> ExitInsideTry(1, debug, caught)
      [] event = "SourceSpecError" -> 1
      [] event = "FileNotFoundError" -> 1
      [] OTHER -> UnexpectedError(debug)

\* review, lines 542-600.
ReviewExit(event, debug, caught) ==
    CASE event = "no_staging" -> ExitInsideTry(1, debug, caught)
      [] event = "ok" -> 0
      [] OTHER -> UnexpectedError(debug)

CliRun(command, event, exit_code) ==
    [command |-> command, event |-> event, exit_code |-> exit_code]

CliInit == cli_runs = <<>>

CliIdle == cli_runs = <<>>

GenerateOutline(event, debug) ==
    /\ Len(cli_runs) < MaxInvocations
    /\ cli_runs' = Append(cli_runs, CliRun("generate-outline", event,
                                           GenerateOutlineExit(event, debug)))
    /\ UNCHANGED not_cli

GenerateDoc(event, debug) ==
    /\ Len(cli_runs) < MaxInvocations
    /\ cli_runs' = Append(cli_runs, CliRun("generate-doc", event,
                                           GenerateDocExit(event, debug)))
    /\ UNCHANGED not_cli

CheckChangesCommand(event) ==
    /\ Len(cli_runs) < MaxInvocations
    /\ cli_runs' = Append(cli_runs, CliRun("check-changes", event, CheckChangesExit(event)))
    /\ UNCHANGED not_cli

ValidateSources(event, debug, caught) ==
    /\ Len(cli_runs) < MaxInvocations
    /\ cli_runs' = Append(cli_runs, CliRun("validate-sources", event,
                                           ValidateSourcesExit(event, debug, caught)))
    /\ UNCHANGED not_cli

Review(event, debug, caught) ==
    /\ Len(cli_runs) < MaxInvocations
    /\ cli_runs' = Append(cli_runs, CliRun("review", event, ReviewExit(event, debug, caught)))
    /\ UNCHANGED not_cli

CliNext ==
    \/ \E event \in {"ok", "FileNotFoundError", "Exception"} \cup LLMErrors, debug \in BOOLEAN :
           GenerateOutline(event, debug)
    \/ \E event \in {"ok", "FileNotFoundError", "DocumentValidationError", "Exception"}
                        \cup LLMErrors, debug \in BOOLEAN :
           GenerateDoc(event, debug)
    \/ \E event \in {"no_docs", "changes", "up_to_date"} : CheckChangesCommand(event)
    \/ \E event \in {"valid", "invalid", "SourceSpecError", "FileNotFoundError", "Exception"},
          debug, caught \in BOOLEAN :
           ValidateSources(event, debug, caught)
    \/ \E event \in {"ok", "no_staging", "Exception"}, debug, caught \in BOOLEAN :
           Review(event, debug, caught)

-----------------------------------------------------------------------------
(* regenerate_from_outlines.py: process_file with --only-if-changed         *)

MaxOutlineSources == 2

MaxRuns == 2

FileCommits == {"c1", "c2"}

\* get_file_commit_hash returned None (lines 224-250).
NoCurrentHash == "<no hash>"

\* One source object: the commit it ends with, and what it adds to
\* has_changes and needs_initial_hashes (lines 270-289).
ProcessSource(recorded, current_hash) ==
    IF current_hash = NoCurrentHash
    THEN [commit |-> recorded, changed |-> FALSE, initial |-> FALSE]
    ELSE IF recorded = NoCommit
    THEN [commit |-> current_hash, changed |-> FALSE, initial |-> TRUE]
    ELSE [commit |-> current_hash, changed |-> recorded # current_hash, initial |-> FALSE]

\* Lines 305-310: the result when some source changed; sources that only
\* got their first hash do not count.
HasChanges(changed, initial) ==
    IF initial /\ ~changed THEN FALSE ELSE changed

\* check_sources_changed (lines 253-310) on the sources of an outline, in
\* order: (has_changes, updated outline).
CheckSourcesChanged(recorded, current) ==
    LET done == [i \in 1..Len(recorded) |-> ProcessSource(recorded[i], current[i])]
    IN  [has_changes |-> HasChanges(\E i \in 1..Len(done) : done[i].changed,
                                    \E i \in 1..Len(done) : done[i].initial),
         outline |-> [i \in 1..Len(done) |-> done[i].commit]]

OnlyIfChangedInit ==
    /\ \E n \in 1..MaxOutlineSources :
          /\ oc_outline \in [1..n -> FileCommits \cup {NoCommit}]
          /\ oc_current \in [1..n -> FileCommits \cup {NoCurrentHash}]
    /\ oc_runs = <<>>

OnlyIfChangedIdle ==
    /\ oc_outline = <<>>
    /\ oc_current = <<>>
    /\ oc_runs = <<>>

\* process_file with only_if_changed (lines 545-587): the updated outline
\* is saved before anything is generated; without changes the document is
\* skipped, otherwise it is generated and copied, which succeeds or fails.
ProcessFile(generated) ==
    /\ Len(oc_runs) < MaxRuns
    /\ LET checked == CheckSourcesChanged(oc_outline, oc_current)
       IN  /\ oc_outline' = checked.outline
           /\ oc_runs' = Append(oc_runs,
                 [recorded |-> oc_outline, current |-> oc_current,
                  has_changes |-> checked.has_changes,
                  result |-> IF ~checked.has_changes THEN "skipped"
                             ELSE IF generated THEN "regenerated" ELSE "failed"])
    /\ UNCHANGED oc_current
    /\ UNCHANGED not_only_if_changed

\* A commit in the repository touches a source file between two runs.
RepositoryCommit(i, hash) ==
    /\ Len(oc_runs) < MaxRuns
    /\ i \in 1..Len(oc_current)
    /\ oc_current[i] \notin {hash, NoCurrentHash}
    /\ oc_current' = [oc_current EXCEPT ![i] = hash]
    /\ UNCHANGED <<oc_outline, oc_runs>>
    /\ UNCHANGED not_only_if_changed

OnlyIfChangedNext ==
    \/ \E generated \in BOOLEAN : ProcessFile(generated)
    \/ \E i \in 1..MaxOutlineSources, hash \in FileCommits : RepositoryCommit(i, hash)

-----------------------------------------------------------------------------
(* Specifications                                                           *)

ValidatorSpecInit ==
    /\ ValidatorInit
    /\ DetectorIdle /\ GeneratorIdle /\ SourceReadIdle /\ OutlineFileIdle
    /\ BatchIdle /\ CheckpointIdle /\ WorkerPoolIdle /\ CloneIdle /\ CliIdle
    /\ OnlyIfChangedIdle

ValidatorSpec == ValidatorSpecInit /\ [][ValidatorNext]_vars

DetectorSpecInit ==
    /\ DetectorInit
    /\ ValidatorIdle /\ GeneratorIdle /\ SourceReadIdle /\ OutlineFileIdle
    /\ BatchIdle /\ CheckpointIdle /\ WorkerPoolIdle /\ CloneIdle /\ CliIdle
    /\ OnlyIfChangedIdle

DetectorSpec == DetectorSpecInit /\ [][DetectorNext]_vars

GeneratorSpecInit ==
    /\ GeneratorInit
    /\ ValidatorIdle /\ DetectorIdle /\ SourceReadIdle /\ OutlineFileIdle
    /\ BatchIdle /\ CheckpointIdle /\ WorkerPoolIdle /\ CloneIdle /\ CliIdle
    /\ OnlyIfChangedIdle

GeneratorSpec == GeneratorSpecInit /\ [][GeneratorNext]_vars

SourceReadSpecInit ==
    /\ SourceReadInit
    /\ ValidatorIdle /\ DetectorIdle /\ GeneratorIdle /\ OutlineFileIdle
    /\ BatchIdle /\ CheckpointIdle /\ WorkerPoolIdle /\ CloneIdle /\ CliIdle
    /\ OnlyIfChangedIdle

SourceReadSpec == SourceReadSpecInit /\ [][SourceReadNext]_vars

OutlineFileSpecInit ==
    /\ OutlineFileInit
    /\ ValidatorIdle /\ DetectorIdle /\ GeneratorIdle /\ SourceReadIdle
    /\ BatchIdle /\ CheckpointIdle /\ WorkerPoolIdle /\ CloneIdle /\ CliIdle
    /\ OnlyIfChangedIdle

OutlineFileSpec == OutlineFileSpecInit /\ [][OutlineFileNext]_vars

BatchSpecInit ==
    /\ BatchInit
    /\ ValidatorIdle /\ DetectorIdle /\ GeneratorIdle /\ SourceReadIdle
    /\ OutlineFileIdle /\ CheckpointIdle /\ WorkerPoolIdle /\ CloneIdle
    /\ CliIdle /\ OnlyIfChangedIdle

BatchSpec == BatchSpecInit /\ [][BatchNext]_vars

CheckpointSpecInit ==
    /\ CheckpointInit
    /\ ValidatorIdle /\ DetectorIdle /\ GeneratorIdle /\ SourceReadIdle
    /\ OutlineFileIdle /\ BatchIdle /\ WorkerPoolIdle /\ CloneIdle
    /\ CliIdle /\ OnlyIfChangedIdle

CheckpointSpec == CheckpointSpecInit /\ [][CheckpointNext]_vars

WorkerPoolSpecInit ==
    /\ WorkerPoolInit
    /\ ValidatorIdle /\ DetectorIdle /\ GeneratorIdle /\ SourceReadIdle
    /\ OutlineFileIdle /\ BatchIdle /\ CheckpointIdle /\ CloneIdle
    /\ CliIdle /\ OnlyIfChangedIdle

WorkerPoolSpec == WorkerPoolSpecInit /\ [][WorkerPoolNext]_vars

CloneSpecInit ==
    /\ CloneInit
    /\ ValidatorIdle /\ DetectorIdle /\ GeneratorIdle /\ SourceReadIdle
    /\ OutlineFileIdle /\ BatchIdle /\ CheckpointIdle /\ WorkerPoolIdle
    /\ CliIdle /\ OnlyIfChangedIdle

CloneSpec == CloneSpecInit /\ [][CloneNext]_vars

CliSpecInit ==
    /\ CliInit
    /\ ValidatorIdle /\ DetectorIdle /\ GeneratorIdle /\ SourceReadIdle
    /\ OutlineFileIdle /\ BatchIdle /\ CheckpointIdle /\ WorkerPoolIdle
    /\ CloneIdle /\ OnlyIfChangedIdle

CliSpec == CliSpecInit /\ [][CliNext]_vars

OnlyIfChangedSpecInit ==
    /\ OnlyIfChangedInit
    /\ ValidatorIdle /\ DetectorIdle /\ GeneratorIdle /\ SourceReadIdle
    /\ OutlineFileIdle /\ BatchIdle /\ CheckpointIdle /\ WorkerPoolIdle
    /\ CloneIdle /\ CliIdle

OnlyIfChangedSpec == OnlyIfChangedSpecInit /\ [][OnlyIfChangedNext]_vars

-----------------------------------------------------------------------------
(* Properties of validate_and_fix                                           *)

NumCalls(phase) == Cardinality({i \in 1..Len(llm_calls) : llm_calls[i].phase = phase})

CallsAt(phase, it) ==
    {i \in 1..Len(llm_calls) : llm_calls[i] = [phase |-> phase, iteration |-> it]}

LastCallWasFix ==
    /\ llm_calls # <<>>
    /\ llm_calls[Len(llm_calls)].phase = "fix"
    /\ v_pc # "raised"

\* C1: whatever the service answers, validate_and_fix runs at most 5 check
\* phases and at most 5 fix phases, never starts a 6th iteration, and ends
\* by returning status PASSED or NEEDS_REVIEW: no response makes it raise.
C1_BoundedAndReturnsStatus ==
    /\ NumCalls("check") <= 5
    /\ NumCalls("fix") <= 5
    /\ iteration <= 5
    /\ v_pc = "returned" => result.status \in {"PASSED", "NEEDS_REVIEW"}
    /\ v_pc = "raised" => v_error = "LLMError"

\* C2: the first check that reports needs_fixing = false, or no HIGH and no
\* MEDIUM issue, ends the run at its iteration with PASSED: it is the last
\* history entry, no fix phase follows it and no later iteration starts.
C2_StopsWhenCheckPasses ==
    \A i \in 1..Len(history) :
        LET c == history[i].check
        IN  (\/ c.needs_fixing = FALSE
             \/ (CountIn(c.issues, "HIGH") = 0 /\ CountIn(c.issues, "MEDIUM") = 0))
            => /\ i = Len(history)
               /\ v_pc = "returned"
               /\ result.status = "PASSED"
               /\ result.iterations = i
               /\ CallsAt("fix", i) = {}
               /\ \A k \in 1..Len(llm_calls) : llm_calls[k].iteration <= i

C2_Witness ==
    /\ v_pc = "returned"
    /\ result.status = "PASSED"
    /\ result.iterations = 3
    /\ history[3].check.needs_fixing = TRUE
    /\ history[3].check.low_priority_count = 2

\* C3: after a fix phase that leaves the staged text identical to the text
\* it was given, validate_and_fix has returned PASSED (no further phase).
C3_UnchangedFixStops ==
    (LastCallWasFix /\ staged = md_content)
        => (v_pc = "returned" /\ result.status = "PASSED")

\* C4: a check response that is not parseable JSON at iteration k does not
\* raise; the check counts as "no issues", no fix phase runs for it, the
\* staged text is the text the check read, and the result is PASSED with
\* iterations = k.
C4_MalformedCheckPasses ==
    parse_failed =>
        /\ v_pc = "returned"
        /\ v_error = "none"
        /\ result.status = "PASSED"
        /\ result.iterations = iteration
        /\ Len(history) = iteration
        /\ history[iteration].check.needs_fixing = FALSE
        /\ history[iteration].check.total_issues = 0
        /\ history[iteration].fixes_applied = FALSE
        /\ CallsAt("fix", iteration) = {}
        /\ staged = md_content

C4_Witness ==
    /\ parse_failed
    /\ v_pc = "returned"
    /\ result.iterations = 2

\* C5: on return, iterations = number of check phases = length of history
\* and entry i records iteration i; PASSED at k means k-1 fix phases ran;
\* NEEDS_REVIEW means 5 iterations, each entry with its check result and
\* fixes_applied = true.
C5_ResultShape ==
    v_pc = "returned" =>
        /\ result.history = history
        /\ result.iterations = NumCalls("check")
        /\ result.iterations = Len(result.history)
        /\ \A i \in 1..Len(result.history) :
              /\ result.history[i].iteration = i
              /\ result.history[i].check.iteration = i
        /\ result.status = "PASSED" =>
              /\ NumCalls("fix") = result.iterations - 1
              /\ \A i \in 1..(result.iterations - 1) : result.history[i].fixes_applied
              /\ ~result.history[result.iterations].fixes_applied
        /\ result.status = "NEEDS_REVIEW" =>
              /\ result.iterations = 5
              /\ NumCalls("fix") = 5
              /\ \A i \in 1..5 :
                    /\ result.history[i].fixes_applied
                    /\ result.history[i].check.needs_fixing
                    /\ result.history[i].check.total_issues = Len(result.history[i].check.issues)
                    /\ result.history[i].check.high_priority_count
                         + result.history[i].check.medium_priority_count > 0

C5_Witness ==
    /\ v_pc = "returned"
    /\ result.status = "NEEDS_REVIEW"
    /\ Len(result.history) = 5

C5_WitnessFirstIteration ==
    /\ v_pc = "returned"
    /\ result.status = "PASSED"
    /\ result.iterations = 1
    /\ NumCalls("fix") = 0

-----------------------------------------------------------------------------
(* Properties of check_changes                                              *)

Range(seq) == {seq[i] : i \in 1..Len(seq)}

ChangedKeys(rep) == {rep.changed_files[i].file_path : i \in 1..Len(rep.changed_files)}

NoDuplicates(seq) == Cardinality(Range(seq)) = Len(seq)

\* The files in the tree of HEAD of the given repositories.
TrackedKeys == {k \in Keys : k[1] \in repo_paths /\ live[k[1]].files[k[2]].tracked}

\* C6: a snapshot recorded by the regeneration step from the repositories as
\* they still are yields a report with no changed, new or removed file, and
\* needs_regeneration() is false.
C6_FreshSnapshotNoChanges ==
    (d_pc = "reported" /\ d_fresh) =>
        /\ report.changed_files = <<>>
        /\ report.new_files = <<>>
        /\ report.removed_files = <<>>
        /\ ~d_stale

\* C7: the four lists of a report are pairwise disjoint, every snapshot key
\* is in exactly one of changed, removed, unchanged, and new is exactly the
\* tracked files of the given repositories that the snapshot lacks.
C7_Disjoint ==
    d_pc = "reported" =>
        /\ NoDuplicates(report.changed_files) /\ NoDuplicates(report.new_files)
        /\ NoDuplicates(report.removed_files) /\ NoDuplicates(report.unchanged_files)
        /\ ChangedKeys(report) \cap Range(report.new_files) = {}
        /\ ChangedKeys(report) \cap Range(report.removed_files) = {}
        /\ ChangedKeys(report) \cap Range(report.unchanged_files) = {}
        /\ Range(report.new_files) \cap Range(report.removed_files) = {}
        /\ Range(report.new_files) \cap Range(report.unchanged_files) = {}
        /\ Range(report.removed_files) \cap Range(report.unchanged_files) = {}

C7_SnapshotKeysClassified ==
    d_pc = "reported" =>
        ChangedKeys(report) \cup Range(report.removed_files)
            \cup Range(report.unchanged_files) = DOMAIN snapshot

C7_NewIsTrackedMinusSnapshot ==
    d_pc = "reported" => Range(report.new_files) = TrackedKeys \ DOMAIN snapshot

C7_ReportPartition ==
    C7_Disjoint /\ C7_SnapshotKeysClassified /\ C7_NewIsTrackedMinusSnapshot

\* C8: needs_regeneration() is true iff changed + new + removed > 0, which
\* is total_changes() > 0; unchanged files alone never trigger it.
C8_NeedsRegenerationIffChanges ==
    d_pc = "reported" =>
        /\ d_stale <=> (Len(report.changed_files) + Len(report.new_files)
                          + Len(report.removed_files) > 0)
        /\ d_stale <=> (TotalChanges(report) > 0)

C8_Witness ==
    /\ d_pc = "reported"
    /\ Len(report.unchanged_files) = 2
    /\ TotalChanges(report) = 0
    /\ ~d_stale

\* C9: check_changes returns a report whatever the repositories are like; a
\* snapshot key whose repository is not in the map, cannot be opened, or has
\* no commit for the path is in removed, and needs_regeneration() is true.
C9_UnverifiableIsRemoved ==
    d_pc = "reported" =>
        \A k \in DOMAIN snapshot :
            (\/ k[1] \notin repo_paths
             \/ ~live[k[1]].readable
             \/ live[k[1]].files[k[2]].hash = NoHash)
            => (k \in Range(report.removed_files) /\ d_stale)

C9_Witness ==
    /\ d_pc = "reported"
    /\ repo_paths = {"A", "B"}
    /\ live["A"].readable /\ live["A"].files["x"].tracked
    /\ live["A"].files["x"].hash = NoHash
    /\ ~live["B"].readable
    /\ report.removed_files = << <<"A", "x">>, <<"B", "x">> >>


-----------------------------------------------------------------------------
(* Properties of generate_from_outline                                      *)

\* The paths of all nodes of a list of Section trees, each path the sequence
\* of 1-based child positions from the top level down.
RECURSIVE NodePaths(_, _)
NodePaths(sections, prefix) ==
    UNION { {Append(prefix, i)} \cup NodePaths(sections[i].sections, Append(prefix, i))
            : i \in 1..Len(sections) }

\* The node of the outline a path names.
RECURSIVE NodeAt(_, _)
NodeAt(sections, path) ==
    IF Len(path) = 1 THEN sections[path[1]]
    ELSE NodeAt(sections[path[1]].sections, Tail(path))

CalledPaths == { service_calls[i].path : i \in 1..Len(service_calls) }

\* C10: generate_from_outline calls the generation service exactly once per
\* node of the outline tree: every call is for one node of the outline, no
\* node is called twice, and when the run has returned the calls are exactly
\* the nodes (as many calls as _count_sections counts). For an outline with no
\* sections it makes no call and the document written and returned is empty.
C10_OneCallPerSection ==
    /\ \A i \in 1..Len(service_calls) :
          /\ service_calls[i].path \in NodePaths(outline, <<>>)
          /\ service_calls[i].heading = NodeAt(outline, service_calls[i].path).heading
    /\ \A i, j \in 1..Len(service_calls) :
          service_calls[i].path = service_calls[j].path => i = j
    /\ g_pc = "done" =>
          /\ CalledPaths = NodePaths(outline, <<>>)
          /\ Len(service_calls) = CountSections(outline)
          /\ Len(service_calls) = total_sections
          /\ sections_completed = total_sections
    /\ (g_pc = "done" /\ outline = <<>>) =>
          /\ service_calls = <<>>
          /\ output_file = <<>>

\* A finished run over an outline of three sections, one of them nested.
C10_Witness ==
    /\ g_pc = "done"
    /\ Len(service_calls) = 3
    /\ \E i \in 1..Len(service_calls) : Len(service_calls[i].path) = 2
    /\ output_file # NotWritten

\* A finished run over an outline with no sections.
C10_WitnessEmpty ==
    /\ g_pc = "done"
    /\ outline = <<>>
    /\ output_file = <<>>


\* The content the service returned for the section at a path.
ContentAt(path) ==
    LET i == CHOOSE k \in 1..Len(service_calls) : service_calls[k].path = path
    IN  service_calls[i].content

\* The pre-order of a list of Section trees: for each section its heading,
\* then its content, then the pre-order of its subsections.
RECURSIVE PreOrder(_, _, _)
PreOrder(sections, prefix, i) ==
    IF i > Len(sections) THEN <<>>
    ELSE << <<sections[i].heading>>, ContentAt(Append(prefix, i)) >>
         \o PreOrder(sections[i].sections, Append(prefix, i), 1)
         \o PreOrder(sections, prefix, i + 1)

\* The pieces of a list with the separator line between consecutive pieces.
RECURSIVE Separated(_)
Separated(pieces) ==
    IF pieces = <<>> THEN <<>>
    ELSE IF Tail(pieces) = <<>> THEN Head(pieces)
    ELSE Head(pieces) \o <<"SEP">> \o Separated(Tail(pieces))

\* C11: the document generate_from_outline writes and returns is the
\* pre-order of the outline, each section's heading followed by its content,
\* with the separator between consecutive pieces.
C11_DocumentIsPreOrder ==
    g_pc = "done" => output_file = Separated(PreOrder(outline, <<>>, 1))

\* A finished run over a section with two subsections followed by nothing,
\* where the parent's text precedes both children.
C11_Witness ==
    /\ g_pc = "done"
    /\ Len(outline) = 1
    /\ Len(outline[1].sections) = 2
    /\ outline[1].heading # outline[1].sections[1].heading
    /\ output_file = Separated(<< <<outline[1].heading>>, ContentAt(<<1>>),
                                  <<outline[1].sections[1].heading>>, ContentAt(<<1, 1>>),
                                  <<outline[1].sections[2].heading>>, ContentAt(<<1, 2>>) >>)

\* The call of the service made for the section of a frame, if made yet.
CallsFor(path) == { k \in 1..Len(service_calls) : service_calls[k].path = path }

\* The length generated_document had when the running call began: nothing on
\* a new instance, what the first call left for a second call.
BufferBase ==
    IF g_call = "first" \/ service_calls = <<>> THEN 0
    ELSE Len(service_calls[1].buffer) - 1

\* C12: when the service is called for a section, the section's heading is
\* the last entry of generated_document and the section's content is not in
\* it (the buffer holds one heading per section entered and one content per
\* earlier call); the content is in the buffer before any subsection is
\* entered, so a subsection's call sees its parent's heading and content.
C12_HeadingBeforeCall ==
    /\ \A k \in 1..Len(service_calls) :
          LET c == service_calls[k]
          IN  /\ c.buffer # <<>>
              /\ c.buffer[Len(c.buffer)] = <<c.heading>>
              /\ Len(c.buffer) = BufferBase + 2 * (k - 1) + 1
              /\ \A j \in 1..(k - 1) : c.buffer[BufferBase + 2 * j] = service_calls[j].content
              /\ Len(c.path) > 1 =>
                    \E j \in 1..(k - 1) :
                        /\ service_calls[j].path = SubSeq(c.path, 1, Len(c.path) - 1)
                        /\ c.buffer[BufferBase + 2 * j - 1] = <<service_calls[j].heading>>
                        /\ c.buffer[BufferBase + 2 * j] = service_calls[j].content
    /\ \A n \in 1..Len(g_stack) :
          g_stack[n].at = "children" =>
              \E k \in CallsFor(g_stack[n].path) :
                  /\ Len(generated_document) >= BufferBase + 2 * k
                  /\ generated_document[BufferBase + 2 * k] = service_calls[k].content

\* The service has been called for a subsection after its parent.
C12_Witness ==
    /\ g_pc = "running"
    /\ g_call = "first"
    /\ Len(service_calls) = 2
    /\ service_calls[2].path = <<1, 1>>
    /\ service_calls[2].buffer =
          << <<outline[1].heading>>, service_calls[1].content,
             <<outline[1].sections[1].heading>> >>


\* The references of a section that _read_source_files degrades to a note
\* for a reason other than the fetch itself.
Unfetchable(source) ==
    \/ ~IsHttpUrl(source.file)
    \/ source.commit = NoCommit
    \/ GithubUrlToRaw(source.file, source.commit) = NoUrl

IsNote(entry) == Len(entry) = 2

C13_EveryReferenceHasAnEntry ==
    \A k \in 1..Len(service_calls) :
        LET c   == service_calls[k]
            src == NodeAt(outline, c.path).sources
        IN  /\ Len(c.sources.parts) = Len(src)
            /\ \A i \in 1..Len(src) :
                  /\ c.sources.parts[i][1] = src[i].file
                  /\ Unfetchable(src[i]) => IsNote(c.sources.parts[i])
                  /\ (~Unfetchable(src[i]) /\ remote[src[i].file.path] = "URLError")
                        => IsNote(c.sources.parts[i])
                  /\ ~Unfetchable(src[i]) =>
                        \E j \in 1..Len(c.sources.fetched) :
                            /\ c.sources.fetched[j].source = src[i]
                            /\ c.sources.fetched[j].address.path = src[i].file.path

\* C13: a reference that is no remote URL, has no pin, cannot be converted
\* to a raw URL or whose fetch fails never aborts generation: no exception of
\* reading sources leaves generate_from_outline, every section entered with
\* such a reference gets its service call, and in that call each reference
\* has its entry (a note for the degraded ones) and the other references
\* were fetched.
C13_SourcesNeverAbort ==
    /\ g_error \in {"none", "LLMError"}
    /\ C13_EveryReferenceHasAnEntry


-----------------------------------------------------------------------------
(* Properties of reading source references                                  *)

\* C14: every fetch made for a reference that carries a commit, by the
\* generator or by the validator, addresses that commit and no branch.
C14_FetchAtPinnedCommit ==
    \A j \in 1..Len(sr_log) :
        sr_log[j].source.commit # NoCommit =>
            sr_log[j].address.rev = sr_log[j].source.commit

\* The generator's share of C14: its fetches are all at the pinned commit.
C14_GeneratorFetchAtPinnedCommit ==
    \A j \in 1..Len(sr_log) :
        (sr_log[j].by = "generator" /\ sr_log[j].source.commit # NoCommit) =>
            sr_log[j].address.rev = sr_log[j].source.commit


-----------------------------------------------------------------------------
(* Properties of the generator's side effects                               *)

Writes == CountIn(g_effects, "output_file.write_text")

\* C15: generate_from_outline writes the output file once, after the last
\* section was generated, and not at all before it returns; when the service
\* fails the call raises and the file was neither created nor written.
C15_WrittenOnceAtEnd ==
    /\ g_pc = "done" =>
          /\ Writes = 1
          /\ g_effects[Len(g_effects)] = "output_file.write_text"
          /\ output_file = Join(document_parts)
          /\ Len(document_parts) = Len(outline)
          /\ sections_completed = CountSections(outline)
    /\ g_pc # "done" =>
          /\ Writes = 0
          /\ output_file = NotWritten
    /\ g_error = "LLMError" =>
          /\ g_pc = "raised"
          /\ g_effects = <<>>
          /\ output_file = NotWritten

\* The service failed on the third section, after a whole top-level section
\* was generated, and nothing was written.
C15_Witness ==
    /\ g_pc = "raised"
    /\ g_error = "LLMError"
    /\ Len(service_calls) = 3
    /\ Len(document_parts) >= 1
    /\ output_file = NotWritten

C15_WitnessWritten ==
    /\ g_pc = "done"
    /\ Len(service_calls) = 3
    /\ g_effects = <<"mkdir", "output_file.write_text">>


\* generate_from_outline lines 68-72: the outline is saved only under
\* outline_updated, which no step of a run sets; a run never saves it.
OutlineNeverSavedByRun ==
    /\ outline_updated = FALSE
    /\ CountIn(g_effects, "outline.save") = 0


-----------------------------------------------------------------------------
(* Properties of outline files                                              *)

\* C17: what load reads back from a saved outline equals the outline in
\* section order, nesting, headings, levels, prompts, source files,
\* reasoning and commit pins, an absent pin staying absent; and saving what
\* was loaded from a file writes the same content again.
C17_SaveLoadRoundTrip ==
    /\ o_mem # NoOutline => o_mem.sections = o_orig.sections
    /\ o_saved # NoFile =>
          /\ o_file = o_saved
          /\ LoadOutline(o_file).sections = o_orig.sections
          /\ SaveText(LoadOutline(o_file)) = o_file

\* An outline with a nested section, a pinned and an unpinned reference was
\* saved, dropped from memory and loaded again.
C17_Witness ==
    /\ o_saved # NoFile
    /\ o_mem # NoOutline
    /\ Len(o_mem.sections) = 1
    /\ Len(o_mem.sections[1].sections) = 1
    /\ o_mem.sections[1].sources = << SourceReference("a.py", "why", NoCommit) >>
    /\ o_mem.sections[1].sections[1].sources =
          << SourceReference("b.md", "", NoCommit), SourceReference("a.py", "why", "c1") >>
    /\ o_mem = LoadOutline(o_file)

\* A file written by hand with a null commit was loaded and saved.
C17_WitnessHandWritten ==
    /\ o_saved # NoFile
    /\ o_orig.sections # <<>>
    /\ Len(o_orig.sections[1].sources) = 2
    /\ o_orig.sections[1].sources[1] = SourceReference("a.py", "why", NoCommit)
    /\ o_orig.model = DefaultModel
    /\ o_saved \notin HandWrittenFiles


-----------------------------------------------------------------------------
(* Properties of regenerate_changed                                         *)

\* The documents found stale, in the order find_all_docs lists them.
StaleDocs == SelectSeq([k \in 1..Len(b_docs) |-> k], LAMBDA k : b_docs[k].find = "stale")

RECURSIVE SumTokens(_)
SumTokens(results) ==
    IF results = <<>> THEN 0
    ELSE Head(results).outline_tokens + Head(results).doc_tokens + SumTokens(Tail(results))

NumWhere(results, ok) == Cardinality({k \in 1..Len(results) : results[k].success = ok})

\* C18: an exception raised while one stale document is regenerated becomes
\* that document's result (success false, error_message the exception's
\* message) and the stale documents after it are regenerated all the same,
\* in order; no exception of a regeneration leaves regenerate_changed. With
\* three stale documents of which the second raises, successful is 2 and
\* failed is 1.
C18_FailureIsCapturedPerDocument ==
    /\ \A k \in 1..Len(b_results) :
          LET doc == b_docs[changed_docs[k]]
              r   == b_results[k]
          IN  /\ r.doc_path = changed_docs[k]
              /\ r.success = (doc.regen.stage = "done")
              /\ r.success => r.error_message = NoMessage
              /\ ~r.success => r.error_message = doc.regen.message
    /\ b_error # "none" => b_results = <<>>
    /\ (b_pc = "returned" /\ changed_docs # <<>>) =>
          /\ Len(b_report.results) = Len(changed_docs)
          /\ b_report.results = b_results
          /\ b_report.successful = NumWhere(b_results, TRUE)
          /\ b_report.failed = NumWhere(b_results, FALSE)
    /\ (/\ b_pc = "returned"
        /\ Len(changed_docs) = 3
        /\ b_docs[changed_docs[1]].regen.stage = "done"
        /\ b_docs[changed_docs[2]].regen.stage # "done"
        /\ b_docs[changed_docs[3]].regen.stage = "done") =>
          /\ b_report.successful = 2
          /\ b_report.failed = 1

\* Three stale documents, the second one's generation raised.
C18_Witness ==
    /\ b_pc = "returned"
    /\ Len(b_report.results) = 3
    /\ b_report.results[1].success
    /\ ~b_report.results[2].success
    /\ b_report.results[2].error_message = "Generated document is empty"
    /\ b_report.results[3].success
    /\ b_report.successful = 2
    /\ b_report.failed = 1

\* C19: a failure that concerns one document, wherever it happens, leaves
\* regenerate_changed returning a report: no exception leaves the call,
\* and the report has a result for every other document that is stale.
C19_DocumentFailureIsIsolated ==
    /\ b_pc # "raised"
    /\ b_pc = "returned" =>
          [k \in 1..Len(b_report.results) |-> b_report.results[k].doc_path] = StaleDocs

\* C20: in every report returned, successful + failed = total_docs = the
\* number of results; the results are those of the stale documents, one
\* each, in order; total_tokens is the sum of outline_tokens + doc_tokens
\* over all results, the failed ones too.
C20_ReportAggregates ==
    b_pc = "returned" =>
        /\ b_report.successful + b_report.failed = b_report.total_docs
        /\ b_report.total_docs = Len(b_report.results)
        /\ [k \in 1..Len(b_report.results) |-> b_report.results[k].doc_path] = StaleDocs
        /\ b_report.total_tokens = SumTokens(b_report.results)

\* A report over a document that failed after its outline was generated and
\* one that succeeded, with a document that was not stale between them.
C20_Witness ==
    /\ b_pc = "returned"
    /\ Len(b_docs) = 3
    /\ b_docs[2].find = "fresh"
    /\ Len(b_report.results) = 2
    /\ ~b_report.results[1].success
    /\ b_report.results[1].outline_tokens = 100
    /\ b_report.results[2].success
    /\ b_report.total_tokens = 213


-----------------------------------------------------------------------------
(* Properties of the checkpointed sequential run                            *)

\* C21: a run resumed with --continue over the same list processes every
\* document the earlier run had not completed successfully, and none it
\* had.
C21_ResumeProcessesExactlyTheRest ==
    (cp_run = 2 /\ cp_pc = "finished") =>
        /\ \A doc \in (1..cp_count) \ cp_completed :
               \E k \in 1..Len(cp_processed) : cp_processed[k] = doc
        /\ \A k \in 1..Len(cp_processed) : cp_processed[k] \notin cp_completed

-----------------------------------------------------------------------------
(* Properties of the worker pool                                            *)

\* C22: in worker-pool mode, whatever the interleaving, a document's
\* outcome equals its outcome when processed alone.
C22_OutcomeAsWhenAlone ==
    \A w \in DOMAIN wp_result :
        wp_result[w] # <<>> => wp_result[w][1] = ProcessedAlone(w, wp_docs[w])

-----------------------------------------------------------------------------
(* Properties of the repository checkouts                                   *)

\* In a log of clone calls: a repository is cloned at most once, and a call
\* for a repository cloned before returns the existing checkout.
ClonedAtMostOnce(log) ==
    \A k \in 1..Len(log) :
        (\E j \in 1..(k - 1) : log[j].repo = log[k].repo /\ log[j].outcome = "cloned")
            => log[k].outcome = "existing"

\* C23: within a run each repository is cloned at most once; a second
\* request for a cloned repository returns the existing checkout without
\* cloning and without failing, also across the documents of one run.
C23_SecondRequestReturnsCheckout ==
    ClonedAtMostOnce(cl_log) /\ ClonedAtMostOnce(cl_script_log)

\* The script's clone_repo alone does so.
C23_ScriptReturnsCheckout == ClonedAtMostOnce(cl_script_log)

-----------------------------------------------------------------------------
(* Properties of the command line                                           *)

Succeeded == {"ok", "valid", "up_to_date", "no_docs"}

SoftFailures ==
    {"changes", "invalid", "no_staging", "FileNotFoundError", "SourceSpecError",
     "DocumentValidationError"}

\* C24: a command ends with 0 on success or when no changes are needed,
\* with 1 when changes are detected or on a soft failure, and with 2 when
\* the generation service fails hard (timeout, rate limit, API error).
C24_ExitCodes ==
    \A k \in 1..Len(cli_runs) :
        /\ cli_runs[k].event \in Succeeded => cli_runs[k].exit_code = 0
        /\ cli_runs[k].event \in SoftFailures => cli_runs[k].exit_code = 1
        /\ cli_runs[k].event \in LLMErrors => cli_runs[k].exit_code = 2

\* C24, the generation-service part alone.
C24_ServiceFailureExitsTwo ==
    \A k \in 1..Len(cli_runs) :
        cli_runs[k].event \in LLMErrors => cli_runs[k].exit_code = 2

-----------------------------------------------------------------------------
(* Properties of the generator's context stack and buffer across calls      *)

\* The content generated for the section at a path in the running call.
ContentFor(path) ==
    { service_calls[k].content : k \in CallsFor(path) }

\* C25: when the service is invoked for a section at nesting depth d the
\* context stack has d entries, one per ancestor and holding its content;
\* an entry is pushed after the section's content is generated and popped
\* when its subtree is finished; the stack is empty whenever
\* generate_from_outline returns.
C25_StackMirrorsAncestors ==
    /\ \A k \in 1..Len(service_calls) :
          LET c == service_calls[k]
          IN  /\ Len(c.context) = Len(c.path) - 1
              /\ \A i \in 1..Len(c.context) :
                    c.context[i] \in ContentFor(SubSeq(c.path, 1, i))
    /\ g_pc = "running" =>
          Len(section_context) =
              Cardinality({ n \in 1..Len(g_stack) : g_stack[n].at = "children" })
    /\ g_pc = "done" => section_context = <<>>

\* C26: in every call, a second call on the same instance included, the
\* buffer behind a section's prompt holds the headings and contents of the
\* sections of this document that precede it in pre-order, then its own
\* heading, and nothing else; for the first section, its heading only.
C26_BufferOfThisDocumentOnly ==
    \A k \in 1..Len(service_calls) :
        LET c == service_calls[k]
        IN  /\ Len(c.buffer) = 2 * (k - 1) + 1
            /\ c.buffer[Len(c.buffer)] = <<c.heading>>
            /\ \A j \in 1..(k - 1) :
                  /\ c.buffer[2 * j - 1] = <<service_calls[j].heading>>
                  /\ c.buffer[2 * j] = service_calls[j].content
            /\ c.document_so_far = Join(c.buffer)
            /\ k = 1 => c.document_so_far = <<c.heading>>

-----------------------------------------------------------------------------
(* Properties of the validator's source reading                             *)

\* C27: in one phase of the validator each distinct source locator of the
\* outline is fetched at most once, however many sections reference it and
\* whether or not its fetch returns content.
C27_EachLocatorFetchedOnce ==
    \A j, k \in 1..Len(sr_log) :
        ( /\ sr_log[j].by = "validator"
          /\ sr_log[k].by = "validator"
          /\ sr_log[j].source.file = sr_log[k].source.file ) => j = k

-----------------------------------------------------------------------------
(* Properties of --only-if-changed                                          *)

\* C28: check_sources_changed returns has_changes = true if some source's
\* recorded commit differs from its current commit or some source has no
\* recorded commit, and false only when every source has a recorded commit
\* equal to its current one. (Runs in which every current commit is known.)
C28_HasChangesIffSomeSourceDiffers ==
    \A k \in 1..Len(oc_runs) :
        LET run == oc_runs[k]
        IN  (\A i \in 1..Len(run.current) : run.current[i] # NoCurrentHash) =>
                (run.has_changes <=>
                    \E i \in 1..Len(run.recorded) :
                        \/ run.recorded[i] = NoCommit
                        \/ run.recorded[i] # run.current[i])

\* C29: a change detected for a document stays detectable until the
\* document has been regenerated: after a run whose regeneration failed,
\* the next run against the unchanged repository detects the change again.
C29_ChangeDetectedUntilRegenerated ==
    \A k \in 1..(Len(oc_runs) - 1) :
        ( /\ oc_runs[k].has_changes
          /\ oc_runs[k].result = "failed"
          /\ oc_runs[k + 1].current = oc_runs[k].current )
            => oc_runs[k + 1].has_changes

-----------------------------------------------------------------------------
(* Properties of what validate_and_fix leaves on disk                       *)

\* C30: whenever validate_and_fix returns, with either status, the staged
\* document is the text its last check phase examined: no fix is applied
\* after the final check.
C30_ReturnedDocumentWasChecked ==
    (v_pc = "returned" /\ result # NoResult) => staged = md_content

====
